---- MODULE Spec2Model ----
(***************************************************************************)
(* A model of drone-cortex-m: the global interrupt mask and the nestable   *)
(* critical section (src/src/processor.rs), the blocking stream adapter    *)
(* (src/src/thr/stream.rs), the DMA channel handles with their routine     *)
(* futures (src/src/peripherals/dma.rs) and the SPI handles with their     *)
(* fork combinators (src/src/peripherals/spi.rs).                          *)
(***************************************************************************)
EXTENDS Integers, Sequences, FiniteSets, TLC

\* ------------------------------------------------------------------ bounds
\* Deepest nesting of critical calls explored.
MaxDepth == 3
\* Items the underlying stream yields at most.
MaxItems == 3
\* Not-ready polls the underlying stream answers at most, per call of next.
MaxPending == 2
\* Calls of next explored after the adapter is exhausted.
MaxLateCalls == 2

\* The deepest nesting of spe_after / txdmaen_after calls explored.
MaxNest == 2

\* Firings of the interrupt vectors explored in the observed runs.
MaxFires == 3

\* How many times the device panics and restarts.
MaxPanics == 2

\* The largest small argument of spin explored.
MaxCycles == 9

\* ------------------------------------------------------------------- state
VARIABLES
  PRIMASK,    \* the PRIMASK register: bit 0 set = maskable interrupts disabled
  csStack,    \* live critical calls, outermost first: [pm, en] per call
  reg,        \* a register with two fields, [a, b], shared with an interrupt routine
  rmw,        \* the main context's multi-field read-modify-write of reg
  outerCall,  \* history: the outermost critical call in progress
  lastOuter,  \* history: the last completed outermost critical call
  exhausted,  \* StreamTrunkWait.exhausted
  stream,     \* StreamTrunkWait.stream: the underlying stream
  nextPc,     \* where the caller of next() is: "idle", "poll", "wait", "asleep"
  event,      \* the processor's Event Register
  owed,       \* the stream answered Pending and has not woken its waker since
  ret,        \* what the last call of next() returned
  out,        \* history: the items next() has returned, in order
  streamLog,  \* history: polls and calls made after the stream's end
  variant,    \* the chip variant the crate is built for (cargo feature)
  dmaItems,   \* per DMA channel: its Items bundle, or None once moved
  dmaHandle,  \* per DMA channel: its composed handle, or None
  dmaFut,     \* per DMA channel: the routine future that owns the handle, or None
  dmaRes,     \* per DMA channel: the resolution the caller has not unwrapped yet
  dmaGiven,   \* history: per DMA channel, the bundle the last compose consumed
  isr,        \* per DMA channel: its status flags in DMA_ISR
  held,       \* the bindings the caller holds from calls of irq()
  spiItems,   \* per SPI: its input Items bundle, or None once composed
  spiHandle,  \* per SPI: its composed handle, or None
  spiOut,     \* per SPI: the output Items bundle decompose returned, or None
  spiGiven,   \* history: per SPI, the bundle compose consumed
  spiFrames,  \* the live calls of spe_after / txdmaen_after, outermost first
  spiRegs,    \* per SPI: the values of its CR1 and CR2 registers
  obs,        \* history: firings of the vectors and invocations of the closures
  spiWas,     \* history: per live combinator call, the bit as it was at the call
  bbReg,      \* a register with a bit-band alias: the value of each of its bits
  bb,         \* the main context's bit-band access on the bus, and what it last read
  bbLast,     \* history: per bit, the value the last completed write gave it
  panicPc,    \* where the processor is: "running", or a step of the panic handler
  panicArgs,  \* the arguments begin was entered with: [args, file, line], or None
  probe,      \* a debug probe is attached and has enabled the trace port
  sink,       \* what has been written to the trace port since the panic
  flushed,    \* what of it has left the port's buffer for the probe
  resetReq,   \* the system-reset request is raised
  panicLog,   \* history: the steps the handler has done, and the panics so far
  resetPc,    \* where self_reset is: "running" before its call, then its statements
  barrier,    \* the dmb of self_reset has been executed
  FAULTMASK,  \* the FAULTMASK register: 1 = every exception but NMI is masked
  AIRCR,      \* the values stored to SCB_AIRCR, in order
  spin        \* the call of spin: its argument, its register and its iterations

critVars == <<PRIMASK, csStack, reg, rmw, outerCall, lastOuter>>

streamVars == <<exhausted, stream, nextPc, event, owed, ret, out, streamLog>>

dmaVars == <<variant, dmaItems, dmaHandle, dmaFut, dmaRes, dmaGiven, isr, held>>

spiVars == <<spiItems, spiHandle, spiOut, spiGiven, spiFrames, spiRegs>>

obsVars == <<obs, spiWas>>

bbVars == <<bbReg, bb, bbLast>>

panicVars == <<panicPc, panicArgs, probe, sink, flushed, resetReq, panicLog>>

procVars == <<resetPc, barrier, FAULTMASK, AIRCR, spin>>

vars == <<critVars, streamVars, dmaVars, spiVars, obsVars, bbVars, panicVars, procVars>>

nonSpi == <<critVars, streamVars, dmaVars, obsVars, bbVars, panicVars, procVars>>

nonCrit == <<streamVars, dmaVars, spiVars, obsVars, bbVars, panicVars, procVars>>

nonStream == <<critVars, dmaVars, spiVars, obsVars, bbVars, panicVars, procVars>>

nonDma == <<critVars, streamVars, spiVars, obsVars, bbVars, panicVars, procVars>>

nonDmaObs == <<critVars, streamVars, spiVars, bbVars, panicVars, procVars>>

nonBb == <<critVars, streamVars, dmaVars, spiVars, obsVars, panicVars, procVars>>

nonPanic == <<critVars, streamVars, dmaVars, spiVars, obsVars, bbVars, procVars>>

nonProc == <<critVars, streamVars, dmaVars, spiVars, obsVars, bbVars, panicVars>>

None == [none |-> TRUE]

Bit == {0, 1}

Max(a, b) == IF a >= b THEN a ELSE b

\* ------------------------------------------------- processor.rs: interrupt
\* mrs r, PRIMASK
primask == PRIMASK

\* cpsid i: sets PRIMASK, whatever it was.
disable_mut(pm) == pm
disable(pm) == 1

\* cpsie i: clears PRIMASK, whatever it was.
enable(pm) == 0

\* The tail of critical: `if pm & 1 == 0 { enable() }`, applied to the mask the
\* closure left behind.
critical_restore_mut(pm, cur) == enable(cur)
critical_restore_inv(pm, cur) == IF pm % 2 = 1 THEN enable(cur) ELSE cur
critical_restore(pm, cur) == IF pm % 2 = 0 THEN enable(cur) ELSE cur

Depth == Len(csStack)

InCritical == Depth > 0

Top == csStack[Depth]

\* Every live call notes that its closure's extent saw an enable().
MarkEnabled(stack) == [i \in 1..Len(stack) |-> [stack[i] EXCEPT !.en = TRUE]]

\* critical(f), up to the call of f: pm = primask(); disable(); cs = CriticalSection.
critical_enter ==
  /\ Depth < MaxDepth
  /\ LET pm == primask IN
       /\ csStack' = Append(csStack, [pm |-> pm, en |-> FALSE])
       /\ PRIMASK' = disable(PRIMASK)
       /\ outerCall' = IF Depth = 0
                         THEN [entry |-> pm, depth |-> 1, en |-> FALSE, dis |-> FALSE]
                         ELSE [outerCall EXCEPT !.depth = Max(@, Depth + 1)]
  /\ UNCHANGED <<reg, rmw, lastOuter>>
  /\ UNCHANGED nonCrit

\* critical(f), from the return of f: re-enable only if pm says enabled on entry.
\* A read-modify-write begun in this closure is finished before the closure returns.
critical_exit ==
  /\ InCritical
  /\ rmw.pc = "loaded" => rmw.depth < Depth
  /\ LET after == critical_restore(Top.pm, PRIMASK) IN
       /\ PRIMASK' = after
       /\ csStack' = SubSeq(csStack, 1, Depth - 1)
       /\ IF Depth = 1
            THEN /\ lastOuter' = outerCall @@ [exit |-> after]
                 /\ outerCall' = None
            ELSE UNCHANGED <<lastOuter, outerCall>>
  /\ UNCHANGED <<reg, rmw>>
  /\ UNCHANGED nonCrit

\* A call of interrupt::disable(), at top level or inside a closure.
call_disable ==
  /\ PRIMASK' = disable(PRIMASK)
  /\ outerCall' = IF InCritical THEN [outerCall EXCEPT !.dis = TRUE] ELSE outerCall
  /\ UNCHANGED <<csStack, reg, rmw, lastOuter>>
  /\ UNCHANGED nonCrit

\* A call of the unsafe interrupt::enable(), at top level or (against its safety
\* note) inside a closure.
call_enable ==
  /\ PRIMASK' = enable(PRIMASK)
  /\ csStack' = MarkEnabled(csStack)
  /\ outerCall' = IF InCritical THEN [outerCall EXCEPT !.en = TRUE] ELSE outerCall
  /\ UNCHANGED <<reg, rmw, lastOuter>>
  /\ UNCHANGED nonCrit

\* ------------------------------------------ register traffic and interrupts
RmwIdle == [pc |-> "idle", tmp |-> [a |-> 0, b |-> 0], depth |-> 0, hit |-> FALSE]

\* The main context's read-modify-write of several fields: the load ...
rmw_load ==
  /\ rmw.pc = "idle"
  /\ rmw' = [pc |-> "loaded", tmp |-> reg, depth |-> Depth, hit |-> FALSE]
  /\ UNCHANGED <<PRIMASK, csStack, reg, outerCall, lastOuter>>
  /\ UNCHANGED nonCrit

\* ... and the store of the value computed from what was loaded.
rmw_store ==
  /\ rmw.pc = "loaded"
  /\ rmw.depth <= Depth
  /\ reg' = [a |-> 1 - rmw.tmp.a, b |-> 1 - rmw.tmp.b]
  /\ rmw' = RmwIdle
  /\ UNCHANGED <<PRIMASK, csStack, outerCall, lastOuter>>
  /\ UNCHANGED nonCrit

\* A maskable interrupt is taken only while PRIMASK is clear; its routine
\* rewrites field a of the register and returns.
interrupt_routine ==
  /\ PRIMASK % 2 = 0
  /\ reg' = [reg EXCEPT !.a = 1 - @]
  /\ rmw' = IF rmw.pc = "loaded" THEN [rmw EXCEPT !.hit = TRUE] ELSE rmw
  /\ UNCHANGED <<PRIMASK, csStack, outerCall, lastOuter>>
  /\ UNCHANGED nonCrit

CritInit ==
  /\ PRIMASK = 0
  /\ csStack = <<>>
  /\ reg = [a |-> 0, b |-> 0]
  /\ rmw = RmwIdle
  /\ outerCall = None
  /\ lastOuter = None

\* ------------------------------------------------------------ thr/stream.rs
NoRet == [none |-> TRUE]

RetNone == [ret |-> "None"]

RetSome(item) == [ret |-> "Some", item |-> item]

\* What a poll of the underlying stream may answer: Pending, the next item, or
\* the end. Nothing in Stream keeps a stream from yielding again after its end.
PollResults ==
  (IF stream.pending < MaxPending THEN {"Pending"} ELSE {})
    \cup (IF stream.produced < MaxItems THEN {"Some"} ELSE {})
    \cup {"End"}

\* StreamExt::trunk_wait
trunk_wait == [exhausted |-> FALSE]

\* next(), up to its first poll: `if self.exhausted { return None; }`.
next_returns_early_mut(ex) == FALSE
next_returns_early(ex) == ex

next_call ==
  /\ nextPc = "idle"
  /\ IF next_returns_early(exhausted)
       THEN /\ streamLog.lateCalls < MaxLateCalls
            /\ ret' = RetNone
            /\ streamLog' = [streamLog EXCEPT !.lateCalls = @ + 1]
            /\ UNCHANGED <<nextPc, stream>>
       ELSE /\ nextPc' = "poll"
            /\ stream' = [stream EXCEPT !.pending = 0]
            /\ UNCHANGED <<ret, streamLog>>
  /\ UNCHANGED <<exhausted, out, event, owed>>
  /\ UNCHANGED nonStream

\* The arms of the match in next(): Pending goes on to WakeTrunk::wait(), the
\* other two answers break out of the loop.
AfterPoll_mut(r) == IF r = "Pending" THEN "poll" ELSE "idle"
AfterPoll(r) == IF r = "Pending" THEN "wait" ELSE "idle"

\* self.exhausted after the match: set in the Ready(None) arm only.
ExhaustedAfter_mut(r, ex) == IF r = "Pending" THEN ex ELSE TRUE
ExhaustedAfter(r, ex) == IF r = "End" THEN TRUE ELSE ex

\* One turn of the loop of next(): the poll and the match on its answer. A
\* stream that answers Pending has kept the waker and owes it a wake.
next_poll ==
  /\ nextPc = "poll"
  /\ \E r \in PollResults :
       /\ streamLog' = IF stream.ended THEN [streamLog EXCEPT !.latePoll = TRUE]
                                     ELSE streamLog
       /\ nextPc' = AfterPoll(r)
       /\ exhausted' = ExhaustedAfter(r, exhausted)
       /\ CASE r = "Pending" ->
                 /\ stream' = [stream EXCEPT !.pending = @ + 1]
                 /\ owed' = TRUE
                 /\ UNCHANGED <<ret, out>>
            [] r = "Some" ->
                 /\ stream' = [stream EXCEPT !.produced = @ + 1]
                 /\ ret' = RetSome(stream.produced + 1)
                 /\ out' = Append(out, stream.produced + 1)
                 /\ UNCHANGED owed
            [] r = "End" ->
                 /\ stream' = [stream EXCEPT !.ended = TRUE]
                 /\ ret' = RetNone
                 /\ UNCHANGED <<out, owed>>
  /\ UNCHANGED event
  /\ UNCHANGED nonStream

\* processor::wait_for_event, the wfe instruction: with the Event Register set
\* it clears the register and goes on; with the register clear it suspends
\* execution until an event occurs.
wait_for_event_mut(ev) == [pc |-> "asleep", event |-> FALSE]
wait_for_event(ev) ==
  IF ev THEN [pc |-> "poll", event |-> FALSE]
        ELSE [pc |-> "asleep", event |-> FALSE]

\* processor::send_event, the sev instruction: the event is signalled, which
\* sets the Event Register.
send_event == TRUE

\* WakeTrunk::wait(), called in the Pending arm: it waits for an event.
next_wait ==
  /\ nextPc = "wait"
  /\ nextPc' = wait_for_event(event).pc
  /\ event' = wait_for_event(event).event
  /\ UNCHANGED <<exhausted, stream, owed, ret, out, streamLog>>
  /\ UNCHANGED nonStream

\* The suspended wfe ends on an event: WakeTrunk::wait() returns and the loop
\* of next() polls again.
next_wake ==
  /\ nextPc = "asleep"
  /\ event
  /\ nextPc' = "poll"
  /\ event' = FALSE
  /\ UNCHANGED <<exhausted, stream, owed, ret, out, streamLog>>
  /\ UNCHANGED nonStream

\* The stream's producer wakes the waker it was polled with: the wake of
\* WakeTrunk sends the event. It may run at any point after the Pending answer,
\* also before the caller has reached its wfe.
wake ==
  /\ owed
  /\ owed' = FALSE
  /\ event' = send_event
  /\ UNCHANGED <<exhausted, stream, nextPc, ret, out, streamLog>>
  /\ UNCHANGED nonStream

\* Any other event (an exception, an event of another source) sets the Event
\* Register while next() is in progress.
other_event ==
  /\ nextPc # "idle"
  /\ ~event
  /\ event' = TRUE
  /\ UNCHANGED <<exhausted, stream, nextPc, owed, ret, out, streamLog>>
  /\ UNCHANGED nonStream

StreamInit ==
  /\ exhausted = trunk_wait.exhausted
  /\ stream = [produced |-> 0, pending |-> 0, ended |-> FALSE]
  /\ nextPc = "idle"
  /\ event = FALSE
  /\ owed = FALSE
  /\ ret = NoRet
  /\ out = <<>>
  /\ streamLog = [lateCalls |-> 0, latePoll |-> FALSE]

StreamNext ==
  \/ next_call
  \/ next_poll
  \/ next_wait
  \/ next_wake
  \/ wake
  \/ other_event

\* ------------------------------------------------- bit-band register access
\* The bits of one register that Shared tokens of its fields give access to.
BbBits == {"b0", "b1"}

BbOps == {"set", "clear", "read"}

BbIdle == [pc |-> "idle", op |-> "read", bit |-> "b0",
           loaded |-> [b \in BbBits |-> 0], got |-> 0]

\* A write to the bit-band alias of a bit: the bus changes that one bit of the
\* register as it is when the write is done, whatever it was when the access
\* was issued.
bit_band_write_mut(cur, loaded, bit, v) == [loaded EXCEPT ![bit] = v]
bit_band_write(cur, loaded, bit, v) == [cur EXCEPT ![bit] = v]

set_bit_band(cur, loaded, bit) == bit_band_write(cur, loaded, bit, 1)

clear_bit_band(cur, loaded, bit) == bit_band_write(cur, loaded, bit, 0)

read_bit_band(cur, bit) == cur[bit]

BbWritten(op) == IF op = "set" THEN 1 ELSE 0

BbResult(op, cur, loaded, bit) ==
  CASE op = "set" -> set_bit_band(cur, loaded, bit)
    [] op = "clear" -> clear_bit_band(cur, loaded, bit)
    [] OTHER -> cur

\* The main context issues a bit-band access through a Shared token, with no
\* critical section around it ...
bb_issue(bit, op) ==
  /\ bb.pc = "idle"
  /\ bb' = [bb EXCEPT !.pc = "issued", !.op = op, !.bit = bit, !.loaded = bbReg]
  /\ UNCHANGED <<bbReg, bbLast>>
  /\ UNCHANGED nonBb

\* ... and the bus completes it.
bb_complete ==
  /\ bb.pc = "issued"
  /\ bbReg' = BbResult(bb.op, bbReg, bb.loaded, bb.bit)
  /\ bbLast' = IF bb.op = "read" THEN bbLast
                ELSE [bbLast EXCEPT ![bb.bit] = BbWritten(bb.op)]
  /\ bb' = [BbIdle EXCEPT !.got = IF bb.op = "read" THEN read_bit_band(bbReg, bb.bit)
                                                    ELSE bb.got]
  /\ UNCHANGED nonBb

\* An interrupt routine makes a bit-band write through its own Shared token and
\* returns; it is taken at any point of the main context while PRIMASK is clear.
bb_interrupt(bit, op) ==
  /\ PRIMASK % 2 = 0
  /\ op # "read"
  /\ bbReg' = BbResult(op, bbReg, bbReg, bit)
  /\ bbLast' = [bbLast EXCEPT ![bit] = BbWritten(op)]
  /\ UNCHANGED bb
  /\ UNCHANGED nonBb

BbInit ==
  /\ bbReg = [b \in BbBits |-> 0]
  /\ bb = BbIdle
  /\ bbLast = [b \in BbBits |-> 0]

BitBandNext ==
  \/ \E bit \in BbBits, op \in BbOps : bb_issue(bit, op)
  \/ bb_complete
  \/ \E bit \in BbBits, op \in BbOps : bb_interrupt(bit, op)

\* ------------------------------------------------------------ panicking.rs
\* The panics a program may raise: a message, a file and a line.
PanicInputs == [args : {"oops", "overflow"}, file : {"main.rs", "lib.rs"}, line : {7, 42}]

\* itm::is_enabled(): the trace port accepts output only with a probe attached.
is_enabled_mut(attached) == TRUE
is_enabled(attached) == attached

\* A write to the trace port: buffered by the port with a probe attached,
\* dropped without one; it returns in both cases.
Emit(port, attached, text) ==
  IF is_enabled(attached) THEN Append(port, text) ELSE port

\* The statements of begin, in their order.
PanicSteps == <<"prefix", "message", "location", "flush", "reset", "spin">>

After_mut(step) ==
  CASE step = "prefix" -> "message"
    [] step = "message" -> "location"
    [] step = "location" -> "reset"
    [] step = "reset" -> "flush"
    [] step = "flush" -> "spin"
After(step) ==
  CASE step = "prefix" -> "message"
    [] step = "message" -> "location"
    [] step = "location" -> "flush"
    [] step = "flush" -> "reset"
    [] step = "reset" -> "spin"

Done(step) == [panicLog EXCEPT !.steps = Append(@, step)]

\* A debug probe is attached or detached while the program runs.
probe_change ==
  /\ panicPc = "running"
  /\ probe' = ~probe
  /\ UNCHANGED <<panicPc, panicArgs, sink, flushed, resetReq, panicLog>>
  /\ UNCHANGED nonPanic

\* The program panics: the language runtime enters begin(args, file, line, _col).
begin(in) ==
  /\ panicPc = "running"
  /\ panicLog.panics < MaxPanics
  /\ panicPc' = "prefix"
  /\ panicArgs' = in
  /\ sink' = <<>>
  /\ flushed' = <<>>
  /\ panicLog' = [steps |-> <<>>, panics |-> panicLog.panics + 1]
  /\ UNCHANGED <<probe, resetReq>>
  /\ UNCHANGED nonPanic

\* iprint!("panicked at '");
begin_prefix ==
  /\ panicPc = "prefix"
  /\ sink' = Emit(sink, probe, "panicked at '")
  /\ panicPc' = After(panicPc)
  /\ panicLog' = Done(panicPc)
  /\ UNCHANGED <<panicArgs, probe, flushed, resetReq>>
  /\ UNCHANGED nonPanic

\* itm::write_fmt(args);
begin_message ==
  /\ panicPc = "message"
  /\ sink' = Emit(sink, probe, panicArgs.args)
  /\ panicPc' = After(panicPc)
  /\ panicLog' = Done(panicPc)
  /\ UNCHANGED <<panicArgs, probe, flushed, resetReq>>
  /\ UNCHANGED nonPanic

\* iprintln!("', {}:{}", file, line);
begin_location ==
  /\ panicPc = "location"
  /\ sink' = Emit(sink, probe, <<"', ", panicArgs.file, ":", panicArgs.line>>)
  /\ panicPc' = After(panicPc)
  /\ panicLog' = Done(panicPc)
  /\ UNCHANGED <<panicArgs, probe, flushed, resetReq>>
  /\ UNCHANGED nonPanic

\* itm::flush(); it returns when the buffer of the port has drained.
begin_flush ==
  /\ panicPc = "flush"
  /\ flushed' = sink
  /\ panicPc' = After(panicPc)
  /\ panicLog' = Done(panicPc)
  /\ UNCHANGED <<panicArgs, probe, sink, resetReq>>
  /\ UNCHANGED nonPanic

\* util::reset_request();
begin_reset_request ==
  /\ panicPc = "reset"
  /\ resetReq' = TRUE
  /\ panicPc' = After(panicPc)
  /\ panicLog' = Done(panicPc)
  /\ UNCHANGED <<panicArgs, probe, sink, flushed>>
  /\ UNCHANGED nonPanic

\* loop {}: the handler spins until the requested reset takes effect; the
\* device then starts again.
reset_takes_effect ==
  /\ panicPc = "spin"
  /\ resetReq
  /\ panicPc' = "running"
  /\ panicArgs' = None
  /\ resetReq' = FALSE
  /\ UNCHANGED <<probe, sink, flushed, panicLog>>
  /\ UNCHANGED nonPanic

PanicInit ==
  /\ panicPc = "running"
  /\ panicArgs = None
  /\ probe = FALSE
  /\ sink = <<>>
  /\ flushed = <<>>
  /\ resetReq = FALSE
  /\ panicLog = [steps |-> <<>>, panics |-> 0]

\* The statements of begin, which the processor goes on executing.
BeginStep ==
  \/ begin_prefix
  \/ begin_message
  \/ begin_location
  \/ begin_flush
  \/ begin_reset_request

PanicNext ==
  \/ probe_change
  \/ \E in \in PanicInputs : begin(in)
  \/ BeginStep
  \/ reset_takes_effect

\* -------------------------------------------------------- peripherals/dma.rs
\* One variant of each kind the cfg attributes tell apart: DMA2 channels 4 and 5
\* on one vector and no CSELR; a vector each and no CSELR; a vector each and CSELR.
Variants == {"stm32f103", "stm32f107", "stm32l4x6"}

Channels == {"Dma2Ch4", "Dma2Ch5"}

\* The thread binding type the channel is built over (use ... as IrqDma2Ch4 / 5).
IrqTy(v, c) ==
  CASE v = "stm32f103" -> "IrqDma2Channel45"
    [] v = "stm32f107" -> IF c = "Dma2Ch4" THEN "IrqDma2Channel4" ELSE "IrqDma2Channel5"
    [] OTHER -> IF c = "Dma2Ch4" THEN "IrqDma2Ch4" ELSE "IrqDma2Ch5"

Vectors(v) == {IrqTy(v, c) : c \in Channels}

HasCselr(v) == v = "stm32l4x6"

\* The fields of the handle struct and of the Items struct.
DmaHandleFields(v) ==
  {"irq", "ccr", "cmar", "cndtr", "cpar", "ifcr_cgif", "ifcr_chtif", "ifcr_ctcif",
   "ifcr_cteif", "isr_gif", "isr_htif", "isr_tcif", "isr_teif"}
    \cup (IF HasCselr(v) THEN {"cselr_cs"} ELSE {})

DmaItemFields(v) ==
  {"dma_ch", "dma_ccr", "dma_cmar", "dma_cndtr", "dma_cpar", "dma_ifcr_cgif",
   "dma_ifcr_chtif", "dma_ifcr_ctcif", "dma_ifcr_cteif", "dma_isr_gif",
   "dma_isr_htif", "dma_isr_tcif", "dma_isr_teif"}
    \cup (IF HasCselr(v) THEN {"dma_cselr_cs"} ELSE {})

\* compose: the Items field each handle field is moved from.
ComposeFrom_mut(f) ==
  CASE f = "irq" -> "dma_ch"
    [] f = "ccr" -> "dma_ccr"
    [] f = "cmar" -> "dma_cmar"
    [] f = "cndtr" -> "dma_cndtr"
    [] f = "cpar" -> "dma_cpar"
    [] f = "cselr_cs" -> "dma_cselr_cs"
    [] f = "ifcr_cgif" -> "dma_ifcr_cgif"
    [] f = "ifcr_chtif" -> "dma_ifcr_chtif"
    [] f = "ifcr_ctcif" -> "dma_ifcr_ctcif"
    [] f = "ifcr_cteif" -> "dma_ifcr_cteif"
    [] f = "isr_gif" -> "dma_isr_gif"
    [] f = "isr_htif" -> "dma_isr_tcif"
    [] f = "isr_tcif" -> "dma_isr_htif"
    [] f = "isr_teif" -> "dma_isr_teif"
ComposeFrom(f) ==
  CASE f = "irq" -> "dma_ch"
    [] f = "ccr" -> "dma_ccr"
    [] f = "cmar" -> "dma_cmar"
    [] f = "cndtr" -> "dma_cndtr"
    [] f = "cpar" -> "dma_cpar"
    [] f = "cselr_cs" -> "dma_cselr_cs"
    [] f = "ifcr_cgif" -> "dma_ifcr_cgif"
    [] f = "ifcr_chtif" -> "dma_ifcr_chtif"
    [] f = "ifcr_ctcif" -> "dma_ifcr_ctcif"
    [] f = "ifcr_cteif" -> "dma_ifcr_cteif"
    [] f = "isr_gif" -> "dma_isr_gif"
    [] f = "isr_htif" -> "dma_isr_htif"
    [] f = "isr_tcif" -> "dma_isr_tcif"
    [] f = "isr_teif" -> "dma_isr_teif"

\* decompose: the handle field each Items field is moved from.
DecomposeFrom(g) ==
  CASE g = "dma_ch" -> "irq"
    [] g = "dma_ccr" -> "ccr"
    [] g = "dma_cmar" -> "cmar"
    [] g = "dma_cndtr" -> "cndtr"
    [] g = "dma_cpar" -> "cpar"
    [] g = "dma_cselr_cs" -> "cselr_cs"
    [] g = "dma_ifcr_cgif" -> "ifcr_cgif"
    [] g = "dma_ifcr_chtif" -> "ifcr_chtif"
    [] g = "dma_ifcr_ctcif" -> "ifcr_ctcif"
    [] g = "dma_ifcr_cteif" -> "ifcr_cteif"
    [] g = "dma_isr_gif" -> "isr_gif"
    [] g = "dma_isr_htif" -> "isr_htif"
    [] g = "dma_isr_tcif" -> "isr_tcif"
    [] g = "dma_isr_teif" -> "isr_teif"

\* A register or field token: what it refers to and its tag (Sbt or Fbt).
Token(p, r, tag) == [periph |-> p, reg |-> r, tag |-> tag]

\* A thread binding: the vector it identifies.
Binding(vec) == [vector |-> vec]

\* The Items bundle of a channel as the Dma2Ch4! / Dma2Ch5! macro assembles it
\* from the thread and register token sets.
DmaItems(v, c) ==
  [g \in DmaItemFields(v) |->
     IF g = "dma_ch" THEN Binding(IrqTy(v, c)) ELSE Token(c, DecomposeFrom(g), "Sbt")]

\* Dma::compose
compose(v, items) == [f \in DmaHandleFields(v) |-> items[ComposeFrom(f)]]

\* Dma::decompose
decompose(v, self) == [g \in DmaItemFields(v) |-> self[DecomposeFrom(g)]]

\* Dma::irq: `self.irq`, a copy of the binding.
irq_mut(self) == Binding("IrqDma2Ch4")
irq(self) == self["irq"]

NoFlags == [teif |-> FALSE, htif |-> FALSE, tcif |-> FALSE]

\* DMA_ISR.GIFx reads as set while any of the channel's event flags is set.
Gif(flags) == flags.teif \/ flags.htif \/ flags.tcif

\* ifcr_cgif.set_bit_band(): writing CGIFx clears GIFx, TEIFx, HTIFx and TCIFx.
set_cgif_mut(flags) == [flags EXCEPT !.teif = FALSE, !.htif = FALSE]
set_cgif(flags) == NoFlags

\* The token the closure clears through when it resolves: self.ifcr_cgif.
ClearToken_mut(self) == self["ifcr_cteif"]
ClearToken(self) == self["ifcr_cgif"]

\* The register writes of one pass of the closure over a test: the clear
\* before `break` when the tested flag is set, none on the way to `yield`.
Writes_mut(found, self) == <<ClearToken(self).reg>>
Writes(found, self) == IF found THEN <<ClearToken(self).reg>> ELSE <<>>

\* The status flags after a 1 is written to a field of DMA_IFCR.
Cleared(flags, field) ==
  CASE field = "ifcr_cgif" -> set_cgif(flags)
    [] field = "ifcr_chtif" -> [flags EXCEPT !.htif = FALSE]
    [] field = "ifcr_ctcif" -> [flags EXCEPT !.tcif = FALSE]
    [] field = "ifcr_cteif" -> [flags EXCEPT !.teif = FALSE]
    [] OTHER -> flags

\* The status flags after the writes of one pass of the closure.
AfterWrites(flags, ws) == IF ws = <<>> THEN flags ELSE Cleared(flags, ws[1])

\* The status flags of all channels after the closure of channel c has made
\* its writes: set_bit_band writes the one bit of DMA_IFCR that belongs to c.
WriteTo_mut(all, c, ws) == [d \in DOMAIN all |-> AfterWrites(all[d], ws)]
WriteTo(all, c, ws) == [all EXCEPT ![c] = AfterWrites(@, ws)]

\* The completion flag a future of each kind tests.
CompletionFlag_mut(kind) == IF kind = "transfer_complete" THEN "htif" ELSE "tcif"
CompletionFlag(kind) == IF kind = "transfer_complete" THEN "tcif" ELSE "htif"

\* The first test of the closure: `if self.isr_teif.read_bit_band()`.
ErrorFirst_mut(flags, kind) == flags.teif /\ ~flags[CompletionFlag(kind)]
ErrorFirst(flags, kind) == flags.teif

\* `break Err(self)` / `break Ok(self)`.
Resolution_mut(tag, self) == [tag |-> tag, val |-> [self EXCEPT !["ifcr_cgif"] = self["ifcr_chtif"]]]
Resolution(tag, self) == [tag |-> tag, val |-> self]

BothSet(c, kind) == isr[c].teif /\ isr[c][CompletionFlag(kind)]

\* Dma::compose(items): the bundle is moved into the handle.
dma_compose_mut(c) ==
  /\ dmaItems[c] # None
  /\ dmaHandle[c] = None
  /\ dmaHandle' = [dmaHandle EXCEPT ![c] = compose(variant, dmaItems[c])]
  /\ dmaGiven' = [dmaGiven EXCEPT ![c] = dmaItems[c]]
  /\ UNCHANGED <<variant, dmaItems, dmaFut, dmaRes, isr, held>>
  /\ UNCHANGED nonDma
dma_compose(c) ==
  /\ dmaItems[c] # None
  /\ dmaHandle' = [dmaHandle EXCEPT ![c] = compose(variant, dmaItems[c])]
  /\ dmaGiven' = [dmaGiven EXCEPT ![c] = dmaItems[c]]
  /\ dmaItems' = [dmaItems EXCEPT ![c] = None]
  /\ UNCHANGED <<variant, dmaFut, dmaRes, isr, held>>
  /\ UNCHANGED nonDma

\* handle.decompose(): the handle is moved into a bundle.
dma_decompose(c) ==
  /\ dmaHandle[c] # None
  /\ dmaItems' = [dmaItems EXCEPT ![c] = decompose(variant, dmaHandle[c])]
  /\ dmaHandle' = [dmaHandle EXCEPT ![c] = None]
  /\ UNCHANGED <<variant, dmaFut, dmaRes, dmaGiven, isr, held>>
  /\ UNCHANGED nonDma

\* handle.irq(): the caller gets a copy of the binding, the handle keeps its own.
dma_irq(c) ==
  /\ dmaHandle[c] # None
  /\ [from |-> c, binding |-> irq(dmaHandle[c])] \notin held
  /\ held' = held \cup {[from |-> c, binding |-> irq(dmaHandle[c])]}
  /\ UNCHANGED <<variant, dmaItems, dmaHandle, dmaFut, dmaRes, dmaGiven, isr>>
  /\ UNCHANGED nonDma

\* irq.future(move || ...): the handle is moved into the closure.
NewFuture(kind, self) ==
  [kind |-> kind, self |-> self, given |-> self, st |-> "new", both |-> FALSE]

\* handle.transfer_complete()
transfer_complete_mut(c) ==
  /\ dmaHandle[c] # None
  /\ dmaFut' = [dmaFut EXCEPT ![c] = NewFuture("transfer_complete", dmaHandle[c])]
  /\ UNCHANGED <<variant, dmaItems, dmaHandle, dmaRes, dmaGiven, isr, held>>
  /\ UNCHANGED nonDma
transfer_complete(c) ==
  /\ dmaHandle[c] # None
  /\ dmaFut' = [dmaFut EXCEPT ![c] = NewFuture("transfer_complete", dmaHandle[c])]
  /\ dmaHandle' = [dmaHandle EXCEPT ![c] = None]
  /\ UNCHANGED <<variant, dmaItems, dmaRes, dmaGiven, isr, held>>
  /\ UNCHANGED nonDma

\* handle.half_transfer()
half_transfer(c) ==
  /\ dmaHandle[c] # None
  /\ dmaFut' = [dmaFut EXCEPT ![c] = NewFuture("half_transfer", dmaHandle[c])]
  /\ dmaHandle' = [dmaHandle EXCEPT ![c] = None]
  /\ UNCHANGED <<variant, dmaItems, dmaRes, dmaGiven, isr, held>>
  /\ UNCHANGED nonDma

\* An invocation of the closure begins at the top of its loop.
Invoked(c, fut) == [fut EXCEPT !.st = "invoked", !.both = BothSet(c, fut.kind)]

\* The first poll of the future invokes the closure in the caller's context.
FirstPoll(c) ==
  /\ dmaFut[c] # None
  /\ dmaFut[c].st = "new"
  /\ dmaFut' = [dmaFut EXCEPT ![c] = Invoked(c, @)]
  /\ UNCHANGED <<variant, dmaItems, dmaHandle, dmaRes, dmaGiven, isr, held>>

future_poll(c) ==
  /\ FirstPoll(c)
  /\ UNCHANGED nonDma

\* The interrupt of a vector fires: every closure suspended on it is resumed.
Suspended(c) == dmaFut[c] # None /\ dmaFut[c].st = "yield"

Registered_mut(c, vec) ==
  /\ dmaFut[c] # None /\ dmaFut[c].st \in {"yield", "dropped"}
  /\ irq(dmaFut[c].self) = Binding(vec)
Registered(c, vec) == Suspended(c) /\ irq(dmaFut[c].self) = Binding(vec)

Fire_mut(vec) ==
  /\ PRIMASK % 2 = 0
  /\ dmaFut' = [c \in Channels |->
                  IF Registered(c, vec) /\ dmaFut[c].kind = "transfer_complete"
                    THEN Invoked(c, dmaFut[c]) ELSE dmaFut[c]]
  /\ UNCHANGED <<variant, dmaItems, dmaHandle, dmaRes, dmaGiven, isr, held>>
Fire(vec) ==
  /\ PRIMASK % 2 = 0
  /\ dmaFut' = [c \in Channels |->
                  IF Registered(c, vec) THEN Invoked(c, dmaFut[c]) ELSE dmaFut[c]]
  /\ UNCHANGED <<variant, dmaItems, dmaHandle, dmaRes, dmaGiven, isr, held>>

irq_fire(vec) ==
  /\ \E c \in Channels : Registered(c, vec)
  /\ Fire(vec)
  /\ UNCHANGED nonDma

\* The future resolves: the closure is gone and its result waits for the caller.
Resolve_mut(c, tag) ==
  /\ dmaRes' = [dmaRes EXCEPT ![c] =
                  Resolution(tag, dmaFut[c].self)
                    @@ [given |-> dmaFut[c].given, both |-> dmaFut[c].both,
                        kind |-> dmaFut[c].kind,
                        wrote |-> Writes(TRUE, dmaFut[c].self)]]
  /\ dmaFut' = [dmaFut EXCEPT ![c].st = "yield"]
  /\ UNCHANGED dmaHandle
Resolve(c, tag) ==
  /\ dmaRes' = [dmaRes EXCEPT ![c] =
                  Resolution(tag, dmaFut[c].self)
                    @@ [given |-> dmaFut[c].given, both |-> dmaFut[c].both,
                        kind |-> dmaFut[c].kind,
                        wrote |-> Writes(TRUE, dmaFut[c].self)]]
  /\ dmaFut' = [dmaFut EXCEPT ![c] = None]
  /\ UNCHANGED dmaHandle

\* The caller unwraps Ok(handle) / Err(handle) and owns the handle again.
take_result(c) ==
  /\ dmaRes[c] # None
  /\ dmaHandle' = [dmaHandle EXCEPT ![c] = dmaRes[c].val]
  /\ dmaRes' = [dmaRes EXCEPT ![c] = None]
  /\ UNCHANGED <<variant, dmaItems, dmaFut, dmaGiven, isr, held>>
  /\ UNCHANGED nonDma

\* The closure's error test:
\*   if self.isr_teif.read_bit_band() { self.ifcr_cgif.set_bit_band(); break Err(self); }
ErrorTest(c) ==
  /\ dmaFut[c] # None
  /\ dmaFut[c].st = "invoked"
  /\ IF ErrorFirst(isr[c], dmaFut[c].kind)
       THEN /\ isr' = WriteTo(isr, c, Writes(TRUE, dmaFut[c].self))
            /\ Resolve(c, "Err")
       ELSE /\ isr' = WriteTo(isr, c, Writes(FALSE, dmaFut[c].self))
            /\ dmaFut' = [dmaFut EXCEPT ![c].st = "compl"]
            /\ UNCHANGED <<dmaRes, dmaHandle>>
  /\ UNCHANGED <<variant, dmaItems, dmaGiven, held>>

routine_teif(c) ==
  /\ ErrorTest(c)
  /\ UNCHANGED nonDma

\* The second test of the closure: `if self.isr_tcif.read_bit_band()`, or
\* `if self.isr_htif.read_bit_band()` in half_transfer.
Ready_mut(flags, kind) == TRUE
Ready(flags, kind) == flags[CompletionFlag(kind)]

\* The closure's completion test, then `yield`:
\*   if self.isr_tcif.read_bit_band() { self.ifcr_cgif.set_bit_band(); break Ok(self); }
CompletionTest(c) ==
  /\ dmaFut[c] # None
  /\ dmaFut[c].st = "compl"
  /\ IF Ready(isr[c], dmaFut[c].kind)
       THEN /\ isr' = WriteTo(isr, c, Writes(TRUE, dmaFut[c].self))
            /\ Resolve(c, "Ok")
       ELSE /\ isr' = WriteTo(isr, c, Writes(FALSE, dmaFut[c].self))
            /\ dmaFut' = [dmaFut EXCEPT ![c].st = "yield"]
            /\ UNCHANGED <<dmaRes, dmaHandle>>
  /\ UNCHANGED <<variant, dmaItems, dmaGiven, held>>

routine_compl(c) ==
  /\ CompletionTest(c)
  /\ UNCHANGED nonDma

\* The DMA controller raises an event flag of a channel.
Raise(c, flag) ==
  /\ ~isr[c][flag]
  /\ isr' = [isr EXCEPT ![c][flag] = TRUE]
  /\ UNCHANGED <<variant, dmaItems, dmaHandle, dmaFut, dmaRes, dmaGiven, held>>

hw_event(c, flag) ==
  /\ Raise(c, flag)
  /\ UNCHANGED nonDma

\* The future is discarded before it has resolved: its closure, and with it the
\* handle the closure owns, is out of the caller's reach and is no longer
\* registered; nothing else is done. Between invocations only: the first
\* invocation runs inside the caller's poll, the later ones in the interrupt.
Drop_mut(c) ==
  /\ dmaFut' = [dmaFut EXCEPT ![c].st = "dropped"]
  /\ isr' = [isr EXCEPT ![c] = set_cgif(@)]
  /\ UNCHANGED <<variant, dmaItems, dmaHandle, dmaRes, dmaGiven, held>>
Drop(c) ==
  /\ dmaFut' = [dmaFut EXCEPT ![c].st = "dropped"]
  /\ UNCHANGED <<variant, dmaItems, dmaHandle, dmaRes, dmaGiven, isr, held>>

future_drop(c) ==
  /\ dmaFut[c] # None
  /\ dmaFut[c].st \in {"new", "yield"}
  /\ Drop(c)
  /\ UNCHANGED nonDma

\* The future of channel c has been discarded: the handle went with its closure.
Discarded(c) == dmaFut[c] # None /\ dmaFut[c].st = "dropped"

\* The future of channel c is pending: made, not resolved and not discarded.
Pending(c) == dmaFut[c] # None /\ dmaFut[c].st # "dropped"

\* No closure of channel c is left to run: its future has resolved (the result
\* waits for the caller) or has been discarded.
Gone(c) == Discarded(c) \/ (dmaFut[c] = None /\ dmaRes[c] # None)

\* The invocations of the closure of channel c that this step begins.
Begun(c) ==
  IF dmaFut'[c] # None /\ dmaFut'[c].st = "invoked"
       /\ dmaFut[c] # None /\ dmaFut[c].st # "invoked"
    THEN 1 ELSE 0

\* The first poll, observed: the count of invocations starts again.
future_poll_obs(c) ==
  /\ FirstPoll(c)
  /\ obs' = [obs EXCEPT !.inv[c] = Begun(c), !.late[c] = "no"]
  /\ UNCHANGED spiWas
  /\ UNCHANGED nonDmaObs

\* A firing of a vector, observed, whether or not a closure is registered on it:
\* the firing is counted and so are the invocations it begins. An interrupt does
\* not preempt its own handler: while a closure runs in the handler of the
\* vector (any invocation but its first, which runs in the caller's poll), a
\* firing of that vector stays pending and is taken after the handler returns.
Running(c) == dmaFut[c] # None /\ dmaFut[c].st \in {"invoked", "compl"}

irq_fire_obs(vec) ==
  /\ obs.fired < MaxFires
  /\ \A c \in Channels :
       (Running(c) /\ irq(dmaFut[c].self) = Binding(vec)) => obs.inv[c] = 1
  /\ Fire(vec)
  /\ obs' = [fired |-> obs.fired + 1, vec |-> vec,
             inv |-> [c \in Channels |-> obs.inv[c] + Begun(c)],
             late |-> [c \in Channels |->
                        IF vec = IrqTy(variant, c) /\ Discarded(c) THEN "discarded"
                        ELSE IF vec = IrqTy(variant, c) /\ Gone(c) THEN "resolved"
                        ELSE obs.late[c]],
             swept |-> obs.swept, by |-> obs.by,
             args |-> obs.args, last |-> obs.last]
  /\ UNCHANGED spiWas
  /\ UNCHANGED nonDmaObs

ObsInit ==
  /\ obs = [fired |-> 0, vec |-> "none", inv |-> [c \in Channels |-> 0],
            late |-> [c \in Channels |-> "no"],
            swept |-> [c \in Channels |-> {}],
            by |-> [c \in Channels |-> "none"],
            args |-> <<>>, last |-> None]
  /\ spiWas = <<>>

\* The tests of the closure and the hardware's events, observed: a resolution
\* records the completion flags that were set when it cleared, and the kind of
\* the future that resolved; an event the hardware raises afterwards takes its
\* flag out of that record.
Swept(c) ==
  IF dmaRes[c] = None /\ dmaRes'[c] # None
    THEN [obs EXCEPT !.swept[c] = {fl \in {"htif", "tcif"} : isr[c][fl]},
                     !.by[c] = dmaFut[c].kind]
    ELSE obs

routine_teif_obs(c) ==
  /\ ErrorTest(c)
  /\ obs' = Swept(c)
  /\ UNCHANGED spiWas
  /\ UNCHANGED nonDmaObs

routine_compl_obs(c) ==
  /\ CompletionTest(c)
  /\ obs' = Swept(c)
  /\ UNCHANGED spiWas
  /\ UNCHANGED nonDmaObs

hw_event_obs(c, flag) ==
  /\ Raise(c, flag)
  /\ obs' = [obs EXCEPT !.swept[c] = @ \ {flag}]
  /\ UNCHANGED spiWas
  /\ UNCHANGED nonDmaObs

\* This step is a firing of the vector of channel c.
FiringOf(c) == obs'.fired = obs.fired + 1 /\ obs'.vec = IrqTy(variant, c)

\* The program uses channel c and no other.
OnlyChannel(c) == \A d \in Channels \ {c} : dmaItems[d] # None /\ dmaGiven[d] = None

\* The suspensions of the closure of channel c so far: its invocations that
\* ended at `yield`, which is every invocation but one that is still running
\* or has resolved.
Suspensions(c) ==
  IF dmaFut[c] # None /\ dmaFut[c].st = "yield" THEN obs.inv[c] ELSE obs.inv[c] - 1

\* A routine future of one channel, from its creation to its resolution or its
\* discarding, with every firing and every invocation observed.
RoutineNext ==
  \/ \E c \in Channels : OnlyChannel(c) /\ dma_compose(c)
  \/ \E c \in Channels : transfer_complete(c)
  \/ \E c \in Channels : half_transfer(c)
  \/ \E c \in Channels : future_poll_obs(c)
  \/ \E vec \in Vectors(variant) : irq_fire_obs(vec)
  \/ \E c \in Channels : routine_teif(c)
  \/ \E c \in Channels : routine_compl(c)
  \/ \E c \in Channels : take_result(c)
  \/ \E c \in Channels : future_drop(c)
  \/ \E c \in Channels, flag \in {"teif", "htif", "tcif"} : hw_event(c, flag)

\* Futures of one channel made one after another from the handle each
\* resolution returns, with every resolution and every hardware event observed.
SweepNext ==
  \/ \E c \in Channels : OnlyChannel(c) /\ dma_compose(c)
  \/ \E c \in Channels : transfer_complete(c)
  \/ \E c \in Channels : half_transfer(c)
  \/ \E c \in Channels : future_poll(c)
  \/ \E vec \in Vectors(variant) : irq_fire(vec)
  \/ \E c \in Channels : routine_teif_obs(c)
  \/ \E c \in Channels : routine_compl_obs(c)
  \/ \E c \in Channels : take_result(c)
  \/ \E c \in Channels : future_drop(c)
  \/ \E c \in Channels, flag \in {"teif", "htif", "tcif"} : hw_event_obs(c, flag)

\* Where the binding of a channel lives: in its bundle, its handle, the closure
\* of its future or the future's result.
ChainBindings(c) ==
  (IF dmaItems[c] # None THEN {<<c, "items", dmaItems[c]["dma_ch"]>>} ELSE {})
    \cup (IF dmaHandle[c] # None THEN {<<c, "handle", irq(dmaHandle[c])>>} ELSE {})
    \cup (IF dmaFut[c] # None THEN {<<c, "future", irq(dmaFut[c].self)>>} ELSE {})
    \cup (IF dmaRes[c] # None THEN {<<c, "result", irq(dmaRes[c].val)>>} ELSE {})

\* Every live binding value: those of the channels and the caller's copies.
LiveBindings ==
  UNION {ChainBindings(c) : c \in Channels}
    \cup {<<h.from, "copy", h.binding>> : h \in held}

BindingsTo(vec) == {b \in LiveBindings : b[3] = Binding(vec)}

DmaInit ==
  /\ variant \in Variants
  /\ dmaItems = [c \in Channels |-> DmaItems(variant, c)]
  /\ dmaHandle = [c \in Channels |-> None]
  /\ dmaFut = [c \in Channels |-> None]
  /\ dmaRes = [c \in Channels |-> None]
  /\ dmaGiven = [c \in Channels |-> None]
  /\ isr = [c \in Channels |-> NoFlags]
  /\ held = {}

DmaNext ==
  \/ \E c \in Channels : dma_compose(c)
  \/ \E c \in Channels : dma_decompose(c)
  \/ \E c \in Channels : dma_irq(c)
  \/ \E c \in Channels : transfer_complete(c)
  \/ \E c \in Channels : half_transfer(c)
  \/ \E c \in Channels : future_poll(c)
  \/ \E vec \in Vectors(variant) : irq_fire(vec)
  \/ \E c \in Channels : routine_teif(c)
  \/ \E c \in Channels : routine_compl(c)
  \/ \E c \in Channels : take_result(c)
  \/ \E c \in Channels, flag \in {"teif", "htif", "tcif"} : hw_event(c, flag)

\* -------------------------------------------------------- peripherals/spi.rs
\* The instantiations of the spi! macro differ in names only; two are modelled.
Spis == {"Spi1", "Spi2"}

SpiIrqTy(p) == IF p = "Spi1" THEN "IrqSpi1" ELSE "IrqSpi2"

SpiHandleFields == {"irq", "cr1", "cr2", "crcpr", "dr", "rxcrcr", "sr", "txcrcr"}

SpiItemFields ==
  {"spi", "spi_cr1", "spi_cr2", "spi_crcpr", "spi_dr", "spi_rxcrcr", "spi_sr",
   "spi_txcrcr"}

\* compose: the Items field each handle field is taken from.
SpiComposeFrom(f) ==
  CASE f = "irq" -> "spi"
    [] f = "cr1" -> "spi_cr1"
    [] f = "cr2" -> "spi_cr2"
    [] f = "crcpr" -> "spi_crcpr"
    [] f = "dr" -> "spi_dr"
    [] f = "rxcrcr" -> "spi_rxcrcr"
    [] f = "sr" -> "spi_sr"
    [] f = "txcrcr" -> "spi_txcrcr"

\* decompose: the handle field each Items field is moved from.
SpiDecomposeFrom(g) ==
  CASE g = "spi" -> "irq"
    [] g = "spi_cr1" -> "cr1"
    [] g = "spi_cr2" -> "cr2"
    [] g = "spi_crcpr" -> "crcpr"
    [] g = "spi_dr" -> "dr"
    [] g = "spi_rxcrcr" -> "rxcrcr"
    [] g = "spi_sr" -> "sr"
    [] g = "spi_txcrcr" -> "txcrcr"

\* The input bundle of an SPI (type Input = Items<Sbt>): every register token
\* is synchronized, CR1 and CR2 included.
SpiItems(p) ==
  [g \in SpiItemFields |->
    IF g = "spi" THEN Binding(SpiIrqTy(p))
    ELSE Token(p, SpiDecomposeFrom(g), "Sbt")]

\* .into(): a synchronized token becomes a forkable token of the same register.
into(tok) == [tok EXCEPT !.tag = "Fbt"]

\* Spi::compose: CR1 and CR2 are converted, every other field is moved.
Spi_compose(input) ==
  [f \in SpiHandleFields |->
    IF f \in {"cr1", "cr2"} THEN into(input[SpiComposeFrom(f)])
    ELSE input[SpiComposeFrom(f)]]

\* Spi::decompose: every field is moved into the output bundle (Items<Fbt>).
Spi_decompose(self) ==
  [g \in SpiItemFields |-> self[SpiDecomposeFrom(g)]]

\* register.fork(): one more token of the same register, with the same tag.
fork(tok) == tok

\* register.field.fork(): one more token of the field of the register.
fork_field(tok, field) == [tok EXCEPT !.reg = field]

\* The register a token is of: a token of a register gives access to all its
\* fields, a token of a field to that field.
RegOf(tok) ==
  CASE tok.reg = "cr1.spe" -> "cr1"
    [] tok.reg = "cr2.txdmaen" -> "cr2"
    [] OTHER -> tok.reg

\* Two tokens give access to a common register field.
Overlap(a, b) ==
  /\ a.periph = b.periph
  /\ RegOf(a) = RegOf(b)
  /\ a.reg = b.reg \/ a.reg = RegOf(a) \/ b.reg = RegOf(b)

\* A CR1 / CR2 value: the control bit the combinators drive and the other bits.
CrVals == [en : Bit, rest : Bit]

CrReset == [en |-> 0, rest |-> 0]

\* field.clear(&mut val) and field.set(&mut val).
clear_mut(val) == val
clear(val) == [val EXCEPT !.en = 0]

set_mut(val) == val
set(val) == [val EXCEPT !.en = 1]

\* The forks spe_after and txdmaen_after take before the handle is moved.
spe_forks_mut(self) ==
  [cr |-> fork(self["cr2"]), bit |-> fork_field(self["cr2"], "cr2.txdmaen")]
spe_forks(self) ==
  [cr |-> fork(self["cr1"]), bit |-> fork_field(self["cr1"], "cr1.spe")]

txdmaen_forks(self) ==
  [cr |-> fork(self["cr2"]), bit |-> fork_field(self["cr2"], "cr2.txdmaen")]

\* cr.store_val(val) through a token of CR1 or CR2.
store_val(regs, tok, val) == [regs EXCEPT ![tok.periph][tok.reg] = val]

Frame(comb, forks, val) ==
  [comb |-> comb, cr |-> forks.cr, bit |-> forks.bit, val |-> val]

\* The register a token of CR1 or CR2 stands for.
RegVal(regs, tok) == regs[tok.periph][tok.reg]

\* Spi::compose(items) (the macro of the instance).
spi_compose(p) ==
  /\ spiItems[p] # None
  /\ spiHandle' = [spiHandle EXCEPT ![p] = Spi_compose(spiItems[p])]
  /\ spiGiven' = [spiGiven EXCEPT ![p] = spiItems[p]]
  /\ spiItems' = [spiItems EXCEPT ![p] = None]
  /\ UNCHANGED <<spiOut, spiFrames, spiRegs>>
  /\ UNCHANGED nonSpi

\* handle.decompose(), by the caller or by the body of a combinator.
spi_decompose(p) ==
  /\ spiHandle[p] # None
  /\ spiOut' = [spiOut EXCEPT ![p] = Spi_decompose(spiHandle[p])]
  /\ spiHandle' = [spiHandle EXCEPT ![p] = None]
  /\ UNCHANGED <<spiItems, spiGiven, spiFrames, spiRegs>>
  /\ UNCHANGED nonSpi

\* handle.spe_after(cr1_val, f) up to the call of f: the forks are taken, SPE is
\* cleared in the value, the value is stored and the handle is moved into f.
SpeAfterCall(p, cr1_val) ==
  /\ spiHandle[p] # None
  /\ Len(spiFrames) < MaxNest
  /\ LET forks == spe_forks(spiHandle[p])
         val == clear(cr1_val)
     IN /\ spiRegs' = store_val(spiRegs, forks.cr, val)
        /\ spiFrames' = Append(spiFrames, Frame("spe_after", forks, val))
  /\ UNCHANGED <<spiItems, spiHandle, spiOut, spiGiven>>

spe_after_call(p, cr1_val) == SpeAfterCall(p, cr1_val) /\ UNCHANGED nonSpi

\* handle.txdmaen_after(cr2_val, f) up to the call of f.
TxdmaenAfterCall(p, cr2_val) ==
  /\ spiHandle[p] # None
  /\ Len(spiFrames) < MaxNest
  /\ LET forks == txdmaen_forks(spiHandle[p])
         val == clear(cr2_val)
     IN /\ spiRegs' = store_val(spiRegs, forks.cr, val)
        /\ spiFrames' = Append(spiFrames, Frame("txdmaen_after", forks, val))
  /\ UNCHANGED <<spiItems, spiHandle, spiOut, spiGiven>>

txdmaen_after_call(p, cr2_val) == TxdmaenAfterCall(p, cr2_val) /\ UNCHANGED nonSpi

\* f has returned to the innermost combinator: the bit is set in the value and
\* the value is stored through the fork.
Return(comb) ==
  /\ spiFrames # <<>>
  /\ LET top == spiFrames[Len(spiFrames)]
     IN /\ top.comb = comb
        /\ spiRegs' = store_val(spiRegs, top.cr, set(top.val))
  /\ spiFrames' = SubSeq(spiFrames, 1, Len(spiFrames) - 1)
  /\ UNCHANGED <<spiItems, spiHandle, spiOut, spiGiven>>

ReturnTo(comb) == Return(comb) /\ UNCHANGED nonSpi

spe_after_return == ReturnTo("spe_after")

txdmaen_after_return == ReturnTo("txdmaen_after")

\* The same steps, observed: the call notes what the bit was in the register.
nonSpiObs == <<critVars, streamVars, dmaVars, obs, bbVars, panicVars, procVars>>

WasAt(forks) == Append(spiWas, RegVal(spiRegs, forks.cr).en)

spe_after_call_obs(p, cr1_val) ==
  /\ SpeAfterCall(p, cr1_val)
  /\ spiWas' = WasAt(spe_forks(spiHandle[p]))
  /\ UNCHANGED nonSpiObs

txdmaen_after_call_obs(p, cr2_val) ==
  /\ TxdmaenAfterCall(p, cr2_val)
  /\ spiWas' = WasAt(txdmaen_forks(spiHandle[p]))
  /\ UNCHANGED nonSpiObs

return_obs(comb) ==
  /\ Return(comb)
  /\ spiWas' = SubSeq(spiWas, 1, Len(spiWas) - 1)
  /\ UNCHANGED nonSpiObs

\* handle.cr1().store_val(val) or handle.cr2().store_val(val), by whoever holds
\* the handle: the caller, or the body of a combinator.
SpiStore(p, r, val) ==
  /\ spiHandle[p] # None
  /\ RegVal(spiRegs, spiHandle[p][r]) # val
  /\ spiRegs' = store_val(spiRegs, spiHandle[p][r], val)
  /\ UNCHANGED <<spiItems, spiHandle, spiOut, spiGiven, spiFrames>>

spi_store(p, r, val) == SpiStore(p, r, val) /\ UNCHANGED nonSpi

\* The same steps, seen from the caller of the combinator: the call notes the
\* value the caller supplied; the return notes, for the state it leads to, that
\* value and the register as the body left it. Any other step forgets the last
\* return.
nonSpiSeen == <<critVars, streamVars, dmaVars, spiWas, bbVars, panicVars, procVars>>

Supplied(val) == Append(obs.args, val)

spe_after_seen(p, cr1_val) ==
  /\ SpeAfterCall(p, cr1_val)
  /\ obs' = [obs EXCEPT !.args = Supplied(cr1_val),
                        !.last = None]
  /\ UNCHANGED nonSpiSeen

txdmaen_after_seen(p, cr2_val) ==
  /\ TxdmaenAfterCall(p, cr2_val)
  /\ obs' = [obs EXCEPT !.args = Supplied(cr2_val),
                        !.last = None]
  /\ UNCHANGED nonSpiSeen

return_seen(comb) ==
  /\ Return(comb)
  /\ LET top == spiFrames[Len(spiFrames)]
         arg == obs.args[Len(obs.args)]
     IN obs' = [obs EXCEPT !.args = SubSeq(@, 1, Len(@) - 1),
                           !.last = [comb |-> comb, cr |-> top.cr, arg |-> arg,
                                     left |-> RegVal(spiRegs, top.cr)]]
  /\ UNCHANGED nonSpiSeen

store_seen(p, r, val) ==
  /\ SpiStore(p, r, val)
  /\ obs' = [obs EXCEPT !.last = None]
  /\ UNCHANGED nonSpiSeen

\* Only SPI p is in use: the other one is still in its bundle.
OnlySpi(p) == \A q \in Spis \ {p} : spiItems[q] # None /\ spiGiven[q] = None

\* Every live register token, with where it is held: <<owner, holder, field,
\* token, frame>>. The holder of a fork is the combinator whose frame keeps it;
\* frame is 0 for a token that is not in a frame.
DmaTokensIn(c, holder, rec) ==
  IF rec = None THEN {}
  ELSE {<<c, holder, f, rec[f], 0>> : f \in DOMAIN rec \ {"dma_ch", "irq"}}

SpiTokensIn(p, holder, rec) ==
  IF rec = None THEN {}
  ELSE {<<p, holder, f, rec[f], 0>> : f \in DOMAIN rec \ {"spi", "irq"}}

FrameTokens(k) ==
  {<<spiFrames[k].cr.periph, spiFrames[k].comb, "cr", spiFrames[k].cr, k>>,
   <<spiFrames[k].bit.periph, spiFrames[k].comb, "bit", spiFrames[k].bit, k>>}

\* The live tokens of the registers of one DMA channel or one SPI.
TokensOf(o) ==
  IF o \in Channels
  THEN DmaTokensIn(o, "items", dmaItems[o]) \cup DmaTokensIn(o, "handle", dmaHandle[o])
         \cup DmaTokensIn(o, "future", IF dmaFut[o] = None THEN None ELSE dmaFut[o].self)
         \cup DmaTokensIn(o, "result", IF dmaRes[o] = None THEN None ELSE dmaRes[o].val)
  ELSE SpiTokensIn(o, "items", spiItems[o]) \cup SpiTokensIn(o, "handle", spiHandle[o])
         \cup SpiTokensIn(o, "output", spiOut[o])
         \cup {x \in UNION {FrameTokens(k) : k \in 1..Len(spiFrames)} : x[1] = o}

Peripherals == Channels \cup Spis

\* Two distinct live tokens that give access to one register field.
Alias(x, y) ==
  /\ Overlap(x[4], y[4])
  /\ x # y

IsFork(x) == x[2] \in {"spe_after", "txdmaen_after"}

\* The register the combinator is documented to drive.
CombReg(comb) == IF comb = "spe_after" THEN "cr1" ELSE "cr2"

SpiInit ==
  /\ spiItems = [p \in Spis |-> SpiItems(p)]
  /\ spiHandle = [p \in Spis |-> None]
  /\ spiOut = [p \in Spis |-> None]
  /\ spiGiven = [p \in Spis |-> None]
  /\ spiFrames = <<>>
  /\ spiRegs = [p \in Spis |-> [cr1 |-> CrReset, cr2 |-> CrReset]]

\* Composition and decomposition of the peripherals.
PeriphNext ==
  \/ \E c \in Channels : dma_compose(c)
  \/ \E c \in Channels : dma_decompose(c)
  \/ \E p \in Spis : spi_compose(p)
  \/ \E p \in Spis : spi_decompose(p)

\* The operations on an SPI, the combinators entered with any value.
SpiNext ==
  \/ \E p \in Spis : spi_compose(p)
  \/ \E p \in Spis : spi_decompose(p)
  \/ \E p \in Spis, cr1_val \in CrVals : spe_after_call(p, cr1_val)
  \/ \E p \in Spis, cr2_val \in CrVals : txdmaen_after_call(p, cr2_val)
  \/ spe_after_return
  \/ txdmaen_after_return

\* One SPI, its combinators observed, and the stores of whoever holds the handle.
CombinatorNext ==
  \/ \E p \in Spis : OnlySpi(p) /\ spi_compose(p)
  \/ \E p \in Spis : spi_decompose(p)
  \/ \E p \in Spis, cr1_val \in CrVals : spe_after_call_obs(p, cr1_val)
  \/ \E p \in Spis, cr2_val \in CrVals : txdmaen_after_call_obs(p, cr2_val)
  \/ return_obs("spe_after")
  \/ return_obs("txdmaen_after")
  \/ \E p \in Spis, r \in {"cr1", "cr2"}, val \in CrVals : spi_store(p, r, val)

\* The combinators of one SPI, nested, with stores by their bodies, seen from
\* their callers.
ReturnNext ==
  \/ \E p \in Spis : OnlySpi(p) /\ spi_compose(p)
  \/ \E p \in Spis, cr1_val \in CrVals : spe_after_seen(p, cr1_val)
  \/ \E p \in Spis, cr2_val \in CrVals : txdmaen_after_seen(p, cr2_val)
  \/ return_seen("spe_after")
  \/ return_seen("txdmaen_after")
  \/ \E p \in Spis, r \in {"cr1", "cr2"}, val \in CrVals : store_seen(p, r, val)

\* One DMA channel and one SPI through every change of owner of their tokens.
OwnershipNext ==
  \/ \E c \in Channels : OnlyChannel(c) /\ dma_compose(c)
  \/ \E c \in Channels : dma_decompose(c)
  \/ \E c \in Channels : transfer_complete(c)
  \/ \E c \in Channels : half_transfer(c)
  \/ \E c \in Channels : future_poll(c)
  \/ \E vec \in Vectors(variant) : irq_fire(vec)
  \/ \E c \in Channels : routine_teif(c)
  \/ \E c \in Channels : routine_compl(c)
  \/ \E c \in Channels : take_result(c)
  \/ \E c \in Channels : future_drop(c)
  \/ \E c \in Channels, flag \in {"teif", "htif", "tcif"} : hw_event(c, flag)
  \/ \E p \in Spis : OnlySpi(p) /\ spi_compose(p)
  \/ \E p \in Spis : spi_decompose(p)

CritNext ==
  \/ critical_enter
  \/ critical_exit
  \/ call_disable
  \/ call_enable

AtomicNext ==
  \/ critical_enter
  \/ critical_exit
  \/ call_disable
  \/ call_enable
  \/ rmw_load
  \/ rmw_store
  \/ interrupt_routine

\* ------------------------------------------- processor.rs: self_reset, spin
\* The key a store to SCB_AIRCR must carry in VECTKEY to take effect.
VECTKEY == 1530

\* SCB_AIRCR as the closure of store receives it: the reset value.
AircrReset == [vectkey |-> 0, sysresetreq |-> 0]

write_vectkey(r, key) == [r EXCEPT !.vectkey = key]

set_sysresetreq(r) == [r EXCEPT !.sysresetreq = 1]

\* |r| r.write_vectkey(0x05FA).set_sysresetreq()
AircrVal_mut(r) == set_sysresetreq(r)
AircrVal(r) == set_sysresetreq(write_vectkey(r, VECTKEY))

\* The statements of self_reset in the order of execution; `loop {}` has no
\* statement after it.
ResetSteps == <<"dmb", "cpsid", "store", "loop">>

Following(step) ==
  CASE step = "dmb" -> "cpsid"
    [] step = "cpsid" -> "store"
    [] OTHER -> "loop"

\* The program calls self_reset().
self_reset ==
  /\ resetPc = "running"
  /\ spin.pc = "idle"
  /\ resetPc' = ResetSteps[1]
  /\ UNCHANGED <<barrier, FAULTMASK, AIRCR, spin>>
  /\ UNCHANGED nonProc

\* dmb
self_reset_dmb ==
  /\ resetPc = "dmb"
  /\ barrier' = TRUE
  /\ resetPc' = Following(resetPc)
  /\ UNCHANGED <<FAULTMASK, AIRCR, spin>>
  /\ UNCHANGED nonProc

\* cpsid f
self_reset_cpsid ==
  /\ resetPc = "cpsid"
  /\ FAULTMASK' = 1
  /\ resetPc' = Following(resetPc)
  /\ UNCHANGED <<barrier, AIRCR, spin>>
  /\ UNCHANGED nonProc

\* scb::Aircr::<Urt>::take().store(...): one store of the whole register.
self_reset_store ==
  /\ resetPc = "store"
  /\ AIRCR' = Append(AIRCR, AircrVal(AircrReset))
  /\ resetPc' = Following(resetPc)
  /\ UNCHANGED <<barrier, FAULTMASK, spin>>
  /\ UNCHANGED nonProc

\* A 32-bit register as two 16-bit halves: its value is hi * 2^16 + lo.
Half == 2^16

Word(hi, lo) == [hi |-> hi, lo |-> lo]

\* subs $0, $0, #3: the difference modulo 2^32, with the flags it sets: C is
\* clear on a borrow, Z is set on a zero result.
subs3(r) ==
  LET val == IF r.lo >= 3 THEN Word(r.hi, r.lo - 3)
             ELSE IF r.hi >= 1 THEN Word(r.hi - 1, r.lo + Half - 3)
             ELSE Word(Half - 1, r.lo + Half - 3)
  IN [val |-> val,
      c |-> IF r.lo >= 3 \/ r.hi >= 1 THEN 1 ELSE 0,
      z |-> IF val = Word(0, 0) THEN 1 ELSE 0]

\* bhi 0b: the branch is taken when C is set and Z is clear.
bhi_mut(flags) == flags.z = 0
bhi(flags) == flags.c = 1 /\ flags.z = 0

\* The arguments explored: the small ones, the ones just above a carry out of
\* the low half, and the largest ones.
SpinInputs ==
  {Word(0, n) : n \in 0..MaxCycles}
    \cup {Word(1, n) : n \in 0..2}
    \cup {Word(Half - 1, Half - 1 - n) : n \in 0..2}

\* The iterations explored for an argument that needs more of them.
SpinCap == (MaxCycles + 2) \div 3 + 1

\* The program calls spin(cycles).
spin_call(cycles) ==
  /\ resetPc = "running"
  /\ spin.pc = "idle"
  /\ spin' = [pc |-> "loop", arg |-> cycles, reg |-> cycles, iters |-> 0]
  /\ UNCHANGED <<resetPc, barrier, FAULTMASK, AIRCR>>
  /\ UNCHANGED nonProc

\* One iteration of the loop: subs, then bhi back to the label or out.
spin_iter ==
  /\ spin.pc = "loop"
  /\ spin.iters < SpinCap
  /\ LET s == subs3(spin.reg)
     IN spin' = [spin EXCEPT !.pc = IF bhi(s) THEN "loop" ELSE "idle",
                             !.reg = s.val,
                             !.iters = @ + 1]
  /\ UNCHANGED <<resetPc, barrier, FAULTMASK, AIRCR>>
  /\ UNCHANGED nonProc

\* A program that masks and unmasks interrupts, spins and resets itself.
ProcessorNext ==
  \/ resetPc = "running" /\ spin.pc = "idle" /\ call_disable
  \/ resetPc = "running" /\ spin.pc = "idle" /\ call_enable
  \/ \E cycles \in SpinInputs : spin_call(cycles)
  \/ spin_iter
  \/ self_reset
  \/ self_reset_dmb
  \/ self_reset_cpsid
  \/ self_reset_store

ProcInit ==
  /\ resetPc = "running"
  /\ barrier = FALSE
  /\ FAULTMASK = 0
  /\ AIRCR = <<>>
  /\ spin = [pc |-> "idle", arg |-> None, reg |-> None, iters |-> 0]

Init ==
  /\ CritInit /\ StreamInit /\ DmaInit /\ SpiInit /\ ObsInit /\ BbInit
  /\ PanicInit /\ ProcInit

Spec == Init /\ [][DmaNext]_vars

SpecCritical == Init /\ [][CritNext]_vars

SpecAtomic == Init /\ [][AtomicNext]_vars

SpecStream == Init /\ [][StreamNext]_vars

\* The caller of next() runs, the processor executes and ends its wfe, and a
\* stream that answered Pending wakes its waker.
SpecWake ==
  /\ Init /\ [][StreamNext]_vars
  /\ WF_vars(next_poll) /\ WF_vars(next_wait) /\ WF_vars(next_wake)
  /\ WF_vars(wake)

SpecPeriph == Init /\ [][PeriphNext]_vars

SpecSpi == Init /\ [][SpiNext]_vars

SpecRoutine == Init /\ [][RoutineNext]_vars

SpecCombinators == Init /\ [][CombinatorNext]_vars

SpecBitBand == Init /\ [][BitBandNext]_vars

SpecOwnership == Init /\ [][OwnershipNext]_vars

SpecSweep == Init /\ [][SweepNext]_vars

SpecReturn == Init /\ [][ReturnNext]_vars

SpecProcessor == Init /\ [][ProcessorNext]_vars

\* The processor goes on executing the statements of begin.
SpecPanic == Init /\ [][PanicNext]_vars /\ WF_vars(BeginStep)

\* ================================================================== claims

\* C3 as stated: after the outermost of N nested critical calls has returned, the
\* interrupt mask equals the mask before that call, whatever calls of disable
\* or enable the closures made.
C3_RestoredRegardless ==
  lastOuter # None => lastOuter.exit = lastOuter.entry

\* C3 amended: after the outermost of N nested critical calls has returned, the
\* mask equals the mask before that call whenever no closure called enable
\* (calls of disable change nothing), and interrupts that were enabled before the
\* call are enabled after it in every case.
C3_RestoredUnlessEnabledInside ==
  (lastOuter # None /\ (~lastOuter.en \/ lastOuter.entry = 0))
    => lastOuter.exit = lastOuter.entry

\* Reached: a call entered with interrupts disabled, nested at least two deep,
\* with a disable inside, has returned and left them disabled.
C3_Witness ==
  /\ lastOuter # None
  /\ lastOuter.depth >= 2
  /\ lastOuter.dis
  /\ ~lastOuter.en
  /\ lastOuter.entry = 1
  /\ lastOuter.exit = 1

\* C4: the return of a critical call enables interrupts only if the mask read
\* on entry said enabled: with pm clear the mask is clear after the return, with
\* pm set the return leaves the mask as the closure left it, so a call whose
\* closure made no enable of its own returns with the mask it was called with.
C4_ReenablesOnlyIfEnabledOnEntry ==
  [][Len(csStack') < Len(csStack) =>
       /\ Top.pm = 0 => PRIMASK' = 0
       /\ Top.pm = 1 => PRIMASK' = PRIMASK
       /\ ~Top.en => PRIMASK' = Top.pm]_vars

\* Reached: a single, not nested, call made with interrupts disabled has
\* returned with interrupts disabled.
C4_Witness ==
  /\ lastOuter # None
  /\ lastOuter.depth = 1
  /\ ~lastOuter.en
  /\ lastOuter.entry = 1
  /\ lastOuter.exit = 1

\* C5: inside the closure of a critical call, nested calls that have returned
\* included, maskable interrupts are disabled (for as long as the closure has
\* not itself called the unsafe enable).
C5_MaskedThroughoutClosure ==
  (InCritical /\ ~Top.en) => PRIMASK = 1

\* Reached: back in the outer closure after a nested call has returned, the outer
\* call having been made with interrupts enabled.
C5_Witness ==
  /\ Depth = 1
  /\ ~Top.en
  /\ outerCall.depth >= 2
  /\ outerCall.entry = 0
  /\ PRIMASK = 1

\* C6: no interrupt routine runs between the load and the store of a
\* read-modify-write made inside a critical closure (whose extent saw no enable).
C6_NoRoutineInsideSequence ==
  (rmw.pc = "loaded" /\ rmw.depth >= 1 /\ ~csStack[rmw.depth].en) => ~rmw.hit

\* Reached: between the load and the store inside a closure, after a nested call
\* has returned, in a program whose interrupts were enabled before the outer call
\* and whose interrupt routine has already written the register.
C6_Witness ==
  /\ rmw.pc = "loaded"
  /\ rmw.depth = 1
  /\ Depth = 1
  /\ ~Top.en
  /\ outerCall.depth >= 2
  /\ outerCall.entry = 0
  /\ reg = [a |-> 1, b |-> 0]
  /\ ~rmw.hit

\* C7: the adapter is fused. Once the underlying stream has signalled its end
\* to next(), the adapter is exhausted, every call of next() returns None at
\* once, and the underlying stream is never polled again.
C7_Fused ==
  stream.ended =>
    /\ exhausted
    /\ nextPc = "idle"
    /\ ret = RetNone
    /\ ~streamLog.latePoll

\* Reached: after items were returned and the end was signalled, next() has been
\* called again, twice, and returned None.
C7_Witness ==
  /\ exhausted
  /\ Len(out) >= 1
  /\ streamLog.lateCalls >= 2
  /\ ret = RetNone
  /\ nextPc = "idle"

\* C1: an invocation of the closure of transfer_complete or half_transfer that
\* began with the error flag and the tested completion flag both set resolves
\* Err, never Ok.
C1_ErrorWins ==
  \A c \in Channels :
    (dmaRes[c] # None /\ dmaRes[c].both) => dmaRes[c].tag = "Err"

\* Reached: futures of both kinds have resolved Err from an invocation that began
\* with both flags set, one of them on a resumption by the interrupt.
C1_Witness ==
  \E c, d \in Channels :
    /\ dmaRes[c] # None /\ dmaRes[d] # None
    /\ dmaRes[c].kind = "transfer_complete" /\ dmaRes[d].kind = "half_transfer"
    /\ dmaRes[c].both /\ dmaRes[d].both
    /\ dmaRes[c].tag = "Err" /\ dmaRes[d].tag = "Err"

\* C2: every resolution, Ok or Err, carries the handle that was consumed to make
\* the future: the tokens and the binding composed from the channel's bundle.
C2_ResolvesWithTheHandle ==
  \A c \in Channels :
    dmaRes[c] # None =>
      /\ dmaRes[c].val = dmaRes[c].given
      /\ dmaRes[c].val = compose(variant, dmaGiven[c])

\* Reached: one future has resolved Ok and another Err, each with its handle.
C2_Witness ==
  \E c, d \in Channels :
    /\ dmaRes[c] # None /\ dmaRes[d] # None
    /\ dmaRes[c].tag = "Ok" /\ dmaRes[d].tag = "Err"
    /\ dmaRes[c].val = compose(variant, DmaItems(variant, c))
    /\ dmaRes[d].val = compose(variant, DmaItems(variant, d))

\* C9 as stated: at no time are there two live bindings to one vector.
C9_OneBindingPerVector ==
  \A vec \in Vectors(variant) : Cardinality(BindingsTo(vec)) <= 1

\* C9 amended: the binding of a channel is held by exactly one of its bundle, its
\* handle, its future or the future's result, and it and every copy irq() made
\* of it identify the vector of that channel.
C9_BindingsFollowChannels ==
  /\ \A c \in Channels : Cardinality(ChainBindings(c)) = 1
  /\ \A b \in LiveBindings : b[3] = Binding(IrqTy(variant, b[1]))

\* Reached: on a variant with a vector per channel, the caller holds a copy from
\* irq() of channel 5 while the binding itself sits in the closure of a future.
C9_Witness ==
  /\ variant = "stm32f107"
  /\ dmaFut["Dma2Ch5"] # None
  /\ dmaFut["Dma2Ch5"].st = "yield"
  /\ \E h \in held : h.from = "Dma2Ch5"
  /\ Cardinality(BindingsTo("IrqDma2Channel5")) = 2

C10_RoundTripIdentity ==
  /\ \A c \in Channels :
       (dmaItems[c] # None /\ dmaGiven[c] # None) => dmaItems[c] = dmaGiven[c]
  /\ \A p \in Spis : spiOut[p] # None => spiOut[p] = spiGiven[p]

\* C10 amended: for a DMA channel decompose(compose(items)) equals items field
\* for field; for an SPI every field comes back in its place and unchanged,
\* except that the CR1 and CR2 tokens, supplied synchronized (Sbt), come back as
\* forkable (Fbt) tokens of the same registers.
C10_RoundTripUpToCrTags ==
  /\ \A c \in Channels :
       (dmaItems[c] # None /\ dmaGiven[c] # None) => dmaItems[c] = dmaGiven[c]
  /\ \A p \in Spis :
       spiOut[p] # None =>
         /\ DOMAIN spiOut[p] = DOMAIN spiGiven[p]
         /\ \A g \in SpiItemFields :
              IF g \in {"spi_cr1", "spi_cr2"}
              THEN /\ spiGiven[p][g].tag = "Sbt"
                   /\ spiOut[p][g] = [spiGiven[p][g] EXCEPT !.tag = "Fbt"]
              ELSE spiOut[p][g] = spiGiven[p][g]

\* Reached: on the variant with the channel-selection field, a DMA channel and an
\* SPI have both been composed and decomposed again.
C10_Witness ==
  /\ variant = "stm32l4x6"
  /\ \E c \in Channels : dmaItems[c] # None /\ dmaGiven[c] = dmaItems[c]
  /\ \E p \in Spis : spiOut[p] # None /\ spiGiven[p] = SpiItems(p)

\* C11: an invocation of the closure that reads the error flag clear suspends,
\* writing nothing, when it reads its completion flag (TCIF for
\* transfer_complete, HTIF for half_transfer) clear, and resolves Ok with the
\* handle and all flags of the channel cleared when it reads it set; a future
\* that resolves Ok at its invocation n+1 has suspended exactly n times, each
\* suspension ended by one firing.
C11_SuspendsUntilComplete ==
  [][\A c \in Channels :
       LET f == dmaFut[c]
           r == dmaRes'[c]
           tested == IF f.kind = "transfer_complete" THEN "tcif" ELSE "htif"
       IN (f # None /\ f.st = "compl" /\ dmaFut'[c] # f) =>
            IF isr[c][tested]
              THEN /\ dmaFut'[c] = None
                   /\ r # None /\ r.tag = "Ok" /\ r.val = f.self
                   /\ isr'[c] = NoFlags
                   /\ Suspensions(c)' = obs.inv[c] - 1
                   /\ obs.inv[c] - 1 <= obs.fired
              ELSE /\ dmaFut'[c] # None /\ dmaFut'[c].st = "yield"
                   /\ Suspensions(c)' = obs.inv[c]
                   /\ isr' = isr
                   /\ r = None
    ]_vars

\* Reached (n = 2): a future has resolved Ok at its third invocation, after two
\* suspensions and two firings, and the flags of its channel are clear.
C11_Witness ==
  \E c \in Channels :
    /\ dmaRes[c] # None /\ dmaRes[c].tag = "Ok"
    /\ obs.inv[c] = 3 /\ Suspensions(c) = 2 /\ obs.fired = 2
    /\ isr[c] = NoFlags

\* C12: a first invocation of the closure that reads the error flag set resolves
\* Err with the handle in that invocation, with no suspension, whatever the
\* completion flags are.
C12_ErrorOnFirstInvocation ==
  [][\A c \in Channels :
       LET f == dmaFut[c]
           r == dmaRes'[c]
       IN (f # None /\ f.st = "invoked" /\ obs.inv[c] = 1 /\ isr[c].teif
             /\ dmaFut'[c] # f) =>
            /\ dmaFut'[c] = None
            /\ r # None /\ r.tag = "Err" /\ r.val = f.self
            /\ Suspensions(c)' = 0
    ]_vars

\* Reached: a future polled with the error flag and its completion flag both set
\* has resolved Err at its first invocation, before any firing.
C12_Witness ==
  \E c \in Channels :
    /\ dmaRes[c] # None /\ dmaRes[c].tag = "Err" /\ dmaRes[c].both
    /\ obs.inv[c] = 1 /\ Suspensions(c) = 0 /\ obs.fired = 0

\* C13: while the result of a resolved future waits for the caller, no step, and
\* no firing of the channel's vector in particular, invokes the closure again,
\* changes the result or clears a flag of the channel; the result only leaves
\* when the caller takes the handle out of it.
C13_ResolvedIsTerminal ==
  [][\A c \in Channels :
       dmaRes[c] # None =>
         /\ dmaFut'[c] = None
         /\ obs'.inv[c] = obs.inv[c]
         /\ \A flag \in {"teif", "htif", "tcif"} : isr[c][flag] => isr'[c][flag]
         /\ \/ dmaRes'[c] = dmaRes[c]
            \/ dmaRes'[c] = None /\ dmaHandle'[c] = dmaRes[c].val
         /\ FiringOf(c) => (dmaRes'[c] = dmaRes[c] /\ isr'[c] = isr[c])
    ]_vars

\* Reached: the vector of a channel has fired while the result of its future,
\* resolved after a suspension, was waiting, and the flags raised since are set.
C13_Witness ==
  \E c \in Channels :
    /\ dmaRes[c] # None /\ obs.late[c] = "resolved" /\ obs.vec = IrqTy(variant, c)
    /\ obs.inv[c] = 2
    /\ isr[c].tcif /\ isr[c].teif

\* C14: an invocation of the closure begins only in the first poll of its future
\* (its first invocation) or in a firing of the vector of its channel that finds
\* it suspended; the first poll begins one, and every firing of that vector
\* after the first invocation has ended, for as long as the future is pending,
\* begins exactly one.
C14_InvokedOncePerFiring ==
  [][\A c \in Channels :
       LET f == dmaFut[c]
       IN /\ Begun(c) = 1 =>
               \/ f.st = "new" /\ obs'.inv[c] = 1 /\ ~FiringOf(c)
               \/ f.st = "yield" /\ FiringOf(c) /\ obs'.inv[c] = obs.inv[c] + 1
          /\ (Pending(c) /\ f.st = "new" /\ dmaFut'[c] # f /\ Pending(c)') =>
               Begun(c) = 1
          /\ (FiringOf(c) /\ Pending(c) /\ f.st # "new"
                /\ ~(Running(c) /\ obs.inv[c] = 1)) =>
               (Begun(c) = 1 /\ obs'.inv[c] = obs.inv[c] + 1)
          /\ (Pending(c) /\ f.st # "new") => obs.inv[c] >= 1
    ]_vars

\* Reached: a pending half_transfer future runs its third invocation, begun by
\* the second firing of its vector.
C14_Witness ==
  \E c \in Channels :
    /\ dmaFut[c] # None /\ dmaFut[c].kind = "half_transfer"
    /\ dmaFut[c].st = "invoked"
    /\ obs.inv[c] = 3 /\ obs.fired = 2 /\ obs.vec = IrqTy(variant, c)

\* C15: a call of next() that went on to poll returns only from a poll that
\* answered an item (then Some(item)) or the end (then None); a poll that
\* answers Pending takes the caller into the wait of the wake primitive, and
\* from that wait, entered once, the only way on is the next poll.
C15_ReturnsOnlyOnItemOrEnd ==
  [][/\ nextPc = "poll" =>
          IF stream'.pending = stream.pending + 1
            THEN nextPc' = "wait" /\ ret' = ret /\ out' = out
            ELSE \/ UNCHANGED <<nextPc, stream, ret, out>>
                 \/ /\ nextPc' = "idle"
                    /\ \/ /\ stream'.produced = stream.produced + 1
                          /\ ret' = RetSome(stream'.produced)
                       \/ /\ stream'.produced = stream.produced
                          /\ stream'.ended /\ ret' = RetNone
     /\ nextPc = "wait" =>
          (nextPc' \in {"wait", "asleep", "poll"} /\ stream' = stream /\ ret' = ret)
     /\ nextPc = "asleep" =>
          (nextPc' \in {"asleep", "poll"} /\ stream' = stream /\ ret' = ret)
     /\ (nextPc' = "poll" /\ nextPc \in {"wait", "asleep"}) => event /\ ~event'
    ]_vars

\* Reached: a call of next() has waited twice, both events are consumed, and its
\* third poll is about to run.
C15_Witness ==
  /\ nextPc = "poll" /\ stream.pending = 2 /\ stream.produced = 1
  /\ ~event /\ ~owed

\* C16: a call of next() returns: the stream answers Pending only finitely
\* often (MaxPending times a call), every Pending answer is followed by a wake
\* of the waker, and a wake that arrives before the caller has reached its wfe
\* stays in the Event Register, so that the wfe does not suspend.
C16_NextReturns == (nextPc # "idle") ~> (nextPc = "idle")

\* Reached: the stream answered Pending and the wake has arrived before the wfe
\* of the caller has started.
C16_Witness ==
  /\ nextPc = "wait" /\ event /\ ~owed /\ stream.pending = MaxPending

\* C17, as stated: while a combinator runs its body the bit is cleared in the
\* register, and when the body has returned the bit is again what it was when
\* the combinator was called.
C17_RestoresTheBit ==
  [][spiFrames # <<>> =>
       LET top == spiFrames[Len(spiFrames)]
       IN /\ RegVal(spiRegs, top.cr).en = 0
          /\ Len(spiFrames') = Len(spiFrames) - 1 =>
               RegVal(spiRegs', top.cr).en = spiWas[Len(spiWas)]
    ]_vars

\* C17, amended: the call stores the value with the bit cleared into the named
\* register (CR1 for spe_after, CR2 for txdmaen_after) and starts the body; the
\* return from the body stores that value with the bit set, whatever the bit was
\* before the call; between the two the bit is set in the register only by the
\* body: by its own store through the handle or by a combinator it has run.
C17_ClearsThenSets ==
  [][/\ Len(spiFrames') = Len(spiFrames) + 1 =>
          LET new == spiFrames'[Len(spiFrames')]
          IN /\ new.cr.reg = CombReg(new.comb)
             /\ new.val.en = 0
             /\ RegVal(spiRegs', new.cr) = new.val
             /\ SubSeq(spiFrames', 1, Len(spiFrames)) = spiFrames
     /\ Len(spiFrames') = Len(spiFrames) - 1 =>
          LET top == spiFrames[Len(spiFrames)]
          IN /\ RegVal(spiRegs', top.cr) = [top.val EXCEPT !.en = 1]
             /\ spiFrames' = SubSeq(spiFrames, 1, Len(spiFrames) - 1)
     /\ Len(spiFrames') = Len(spiFrames) =>
          /\ spiFrames' = spiFrames
          /\ \A p \in Spis, r \in {"cr1", "cr2"} :
               spiRegs'[p][r] # spiRegs[p][r] => spiHandle[p] # None
     /\ Len(spiFrames') \in {Len(spiFrames) - 1, Len(spiFrames), Len(spiFrames) + 1}
    ]_vars

\* Reached: spe_after runs its body on an SPI whose SPE was clear at the call;
\* the body has run spe_after again, which left SPE set, and is now in a third
\* spe_after, called with SPE set and running with SPE cleared.
C17_Witness ==
  /\ Len(spiFrames) = 2
  /\ spiFrames[1].comb = "spe_after" /\ spiFrames[2].comb = "spe_after"
  /\ spiFrames[1].cr = spiFrames[2].cr
  /\ spiWas = <<0, 1>>
  /\ RegVal(spiRegs, spiFrames[2].cr).en = 0

\* C18: with the main context and an interrupt routine setting, clearing and
\* reading bits of one register through Shared tokens, interleaved in any way
\* and with interrupts enabled, every bit of the register holds what the last
\* completed write gave it (no update is lost, the value is that of the serial
\* order in which the accesses completed), a write changes no other bit, and a
\* read returns the bit as the register holds it and changes nothing.
C18_BitBandAtomic ==
  [][/\ bbReg' = bbLast'
     /\ \A b \in BbBits :
          bbReg'[b] # bbReg[b] =>
            \/ bb.pc = "issued" /\ bb'.pc = "idle" /\ bb.bit = b /\ bb.op # "read"
            \/ bb' = bb
     /\ (bb.pc = "issued" /\ bb'.pc = "idle" /\ bb.op = "read") =>
          (bb'.got = bbLast[bb.bit] /\ bbReg' = bbReg)
    ]_vars

\* Reached: the main context has issued the clearing of b0 while both bits were
\* clear, and the interrupt routine has set b1 before the access completed.
C18_Witness ==
  /\ bb.pc = "issued" /\ bb.op = "clear" /\ bb.bit = "b0"
  /\ bb.loaded = [b \in BbBits |-> 0]
  /\ bbReg = [b \in BbBits |-> IF b = "b1" THEN 1 ELSE 0]
  /\ PRIMASK = 0 /\ csStack = <<>>

\* C19: once a future has been discarded before it resolved, its closure is not
\* registered: no step, and no firing of its vector in particular, begins an
\* invocation of it, resolves it, or clears a status flag of its channel.
C19_DiscardedIsDeregistered ==
  [][\A c \in Channels :
       Discarded(c) =>
         /\ dmaFut'[c] = dmaFut[c]
         /\ \A vec \in Vectors(variant) : ~Registered(c, vec)
         /\ obs'.inv[c] = obs.inv[c]
         /\ dmaRes'[c] = None /\ dmaHandle'[c] = None
         /\ \A flag \in {"teif", "htif", "tcif"} : isr[c][flag] => isr'[c][flag]
         /\ FiringOf(c) => isr'[c] = isr[c]
    ]_vars

\* Reached: a future that had been resumed once was discarded while suspended,
\* and its vector has fired since, with the completion flag of its channel set.
C19_Witness ==
  \E c \in Channels :
    /\ Discarded(c) /\ obs.late[c] = "discarded" /\ obs.vec = IrqTy(variant, c)
    /\ obs.inv[c] = 2 /\ obs.fired = 2
    /\ isr[c][CompletionFlag(dmaFut[c].kind)]

\* C20: the step that discards a pending future changes nothing but the future:
\* no status flag and no register is written and the interrupt mask is left as
\* it is; the controller goes on raising the flags of the channel afterwards.
C20_DiscardChangesNoHardware ==
  /\ [](\A c \in Channels, flag \in {"teif", "htif", "tcif"} :
          (Discarded(c) /\ ~isr[c][flag]) => ENABLED hw_event(c, flag))
  /\ [][\A c \in Channels :
          (Pending(c) /\ Discarded(c)') =>
            /\ isr' = isr
            /\ PRIMASK' = PRIMASK /\ reg' = reg
            /\ spiRegs' = spiRegs /\ bbReg' = bbReg
            /\ dmaItems' = dmaItems /\ dmaHandle' = dmaHandle /\ dmaRes' = dmaRes
       ]_vars

\* Reached: a future was discarded while suspended, with no flag of its channel
\* set at its only invocation; all three flags are set now.
C20_Witness ==
  \E c \in Channels :
    /\ Discarded(c) /\ obs.inv[c] = 1 /\ obs.fired = 0
    /\ isr[c] = [teif |-> TRUE, htif |-> TRUE, tcif |-> TRUE]

\* C21: a pending future does not resolve by itself: a step resolves it only
\* with the error flag or its tested completion flag set, and while neither is
\* set every step, a firing of its vector included, leaves it pending unless
\* the caller discards it.
C21_NoTimeout ==
  [][\A c \in Channels :
       LET f == dmaFut[c]
           tested == IF f.kind = "transfer_complete" THEN "tcif" ELSE "htif"
       IN Pending(c) =>
            /\ (dmaRes'[c] # None \/ dmaFut'[c] = None) =>
                 (isr[c].teif \/ isr[c][tested])
            /\ (~isr[c].teif /\ ~isr[c][tested]) =>
                 /\ Pending(c)' \/ Discarded(c)'
                 /\ dmaRes'[c] = None /\ dmaHandle'[c] = None
    ]_vars

\* Reached: a future is suspended after as many firings of its vector as the
\* bound allows and one invocation more than that, with neither the error flag
\* nor its tested flag set, and with the other completion flag set.
C21_Witness ==
  \E c \in Channels :
    /\ Pending(c) /\ dmaFut[c].st = "yield" /\ dmaFut[c].kind = "transfer_complete"
    /\ obs.fired = MaxFires /\ obs.inv[c] = MaxFires + 1
    /\ ~isr[c].teif /\ ~isr[c].tcif /\ isr[c].htif

\* The other kind of future, and the flags with TCIF and HTIF exchanged.
OtherKind(kind) ==
  IF kind = "transfer_complete" THEN "half_transfer" ELSE "transfer_complete"

SwapFlags(flags) == [teif |-> flags.teif, htif |-> flags.tcif, tcif |-> flags.htif]

\* C22: an invocation of either closure resolves Err exactly when it reads TEIF
\* set; having read TEIF clear, the closure of transfer_complete resolves Ok
\* exactly when it reads TCIF set, whatever HTIF is, and the closure of
\* half_transfer exactly when it reads HTIF set, whatever TCIF is; otherwise
\* both suspend. Each step is the one the closure of the other kind takes on
\* the flags with TCIF and HTIF exchanged.
C22_SameMachineOtherFlag ==
  [][\A c \in Channels :
       LET f == dmaFut[c]
           r == dmaRes'[c]
           tested == IF f.kind = "transfer_complete" THEN "tcif" ELSE "htif"
           resolved(tag) == dmaFut'[c] = None /\ r # None /\ r.tag = tag
                              /\ isr'[c] = SwapFlags(NoFlags)
       IN (Running(c) /\ dmaFut'[c] # f) =>
            /\ f.st = "invoked" =>
                 /\ resolved("Err") <=> isr[c].teif
                 /\ ~isr[c].teif => (dmaFut'[c] # None /\ dmaFut'[c].st = "compl")
                 /\ resolved("Err") <=> ErrorFirst(SwapFlags(isr[c]), OtherKind(f.kind))
            /\ f.st = "compl" =>
                 /\ resolved("Ok") <=> isr[c][tested]
                 /\ ~isr[c][tested] => (dmaFut'[c] # None /\ dmaFut'[c].st = "yield")
                 /\ resolved("Ok") <=> Ready(SwapFlags(isr[c]), OtherKind(f.kind))
    ]_vars

\* Reached: a half_transfer future is suspended after two invocations, with
\* TCIF set and HTIF clear, the flags on which a transfer_complete future resolves.
C22_Witness ==
  \E c \in Channels :
    /\ Pending(c) /\ dmaFut[c].kind = "half_transfer" /\ dmaFut[c].st = "yield"
    /\ obs.inv[c] = 2
    /\ isr[c] = [teif |-> FALSE, htif |-> FALSE, tcif |-> TRUE]

\* C23: compose, decompose, transfer_complete and half_transfer move the tokens:
\* at any time all tokens of a peripheral are with one owner (its bundle, its
\* handle, the closure of its future, or the handle inside the future's result)
\* and no two of them give access to one register field, so nothing that was
\* composed, decomposed or consumed is left behind to be used again.
C23_OneOwner ==
  \A o \in Peripherals :
    LET T == TokensOf(o)
    IN /\ Cardinality({x[2] : x \in T}) = 1
       /\ \A x, y \in T : ~Alias(x, y)
       /\ o \in Channels =>
            Cardinality({h \in {dmaItems[o], dmaHandle[o], dmaFut[o], dmaRes[o]} :
                           h # None}) = 1
       /\ o \in Spis =>
            Cardinality({h \in {spiItems[o], spiHandle[o], spiOut[o]} : h # None}) = 1

\* Reached: the bundle of a channel has been composed, its handle has been
\* consumed by a future that is now suspended, and an SPI has been composed and
\* decomposed.
C23_Witness ==
  \E c \in Channels, p \in Spis :
    /\ Pending(c) /\ dmaFut[c].st = "yield"
    /\ dmaItems[c] = None /\ dmaHandle[c] = None /\ dmaRes[c] = None
    /\ dmaGiven[c] = decompose(variant, dmaFut[c].self)
    /\ spiOut[p] # None /\ spiItems[p] = None /\ spiHandle[p] = None

\* C24: the handler does its steps in the order prefix, message, location,
\* flush, reset request, and spins only after the reset request; with a probe
\* attached the port holds the message, then file and line, all of it flushed
\* before the request is raised. The handler is left only by the reset taking
\* effect, never by a return, and every panic leads to the reset request.
C24_DiagnoseFlushResetSpin ==
  /\ [](panicPc # "running" =>
          /\ \E n \in 0..5 :
               /\ panicLog.steps = SubSeq(PanicSteps, 1, n)
               /\ panicPc = PanicSteps[n + 1]
          /\ resetReq <=> panicPc = "spin"
          /\ resetReq => flushed = sink
          /\ (probe /\ panicPc \in {"flush", "reset", "spin"}) =>
               sink = <<"panicked at '", panicArgs.args,
                        <<"', ", panicArgs.file, ":", panicArgs.line>> >>)
  /\ [][(panicPc # "running" /\ panicPc' = "running") =>
          (panicPc = "spin" /\ resetReq)]_vars
  /\ (panicPc # "running") ~> resetReq

\* Reached: with a probe attached the handler spins, the reset requested, the
\* whole diagnostic written and flushed.
C24_Witness ==
  /\ panicPc = "spin" /\ resetReq /\ probe
  /\ Len(flushed) = 3
  /\ panicLog.steps = <<"prefix", "message", "location", "flush", "reset">>

C26_ClearsThroughCgifOnce ==
  [][\A c \in Channels :
       LET f == dmaFut[c]
           r == dmaRes'[c]
           cause == IF r.tag = "Err" THEN "teif"
                    ELSE IF f.kind = "transfer_complete" THEN "tcif" ELSE "htif"
       IN (dmaRes[c] = None /\ r # None) =>
            /\ r.tag \in {"Ok", "Err"}
            /\ r.wrote = <<"ifcr_cgif">>
            /\ isr[c][cause] /\ ~isr'[c][cause]
            /\ isr'[c] = NoFlags
            /\ dmaHandle[c] = None /\ dmaHandle'[c] = None
    ]_vars

\* Reached: a half_transfer future has resolved Err on its second invocation;
\* the result waits for the caller, written once through CGIF, all flags clear.
C26_Witness ==
  \E c \in Channels :
    /\ dmaRes[c] # None /\ dmaRes[c].tag = "Err" /\ dmaRes[c].kind = "half_transfer"
    /\ dmaRes[c].wrote = <<"ifcr_cgif">>
    /\ obs.inv[c] = 2 /\ isr[c] = NoFlags

\* C27: a pass of the closure that finds the flag it tests clear writes no
\* register: the step from the error test to the completion test, and the step
\* from the completion test to `yield`, leave every status flag of every
\* channel as it was, produce no result and return no handle; an invocation
\* that found neither flag set ends suspended.
C27_PendingPassWritesNothing ==
  [][\A c \in Channels :
       LET f == dmaFut[c]
           g == dmaFut'[c]
           stepped == Running(c) /\ (g = None \/ g.st \notin {f.st, "dropped"})
           tested == IF f.st = "invoked" THEN "teif"
                     ELSE IF f.kind = "transfer_complete" THEN "tcif" ELSE "htif"
       IN (stepped /\ ~isr[c][tested]) =>
            /\ isr' = isr
            /\ dmaRes' = dmaRes /\ dmaHandle' = dmaHandle
            /\ g # None
            /\ g.st = (IF f.st = "invoked" THEN "compl" ELSE "yield")
            /\ [g EXCEPT !.st = f.st] = f
    ]_vars

\* Reached: the second invocation of a half_transfer future found neither the
\* error flag nor the half-transfer flag and suspended; the transfer-complete
\* flag, which it does not test, is still set.
C27_Witness ==
  \E c \in Channels :
    /\ Suspended(c) /\ dmaFut[c].kind = "half_transfer"
    /\ obs.inv[c] = 2 /\ obs.fired = 1
    /\ isr[c] = [NoFlags EXCEPT !.tcif = TRUE]
    /\ dmaRes[c] = None /\ dmaHandle[c] = None

\* C28: a resolution clears every status flag of its channel, so a completion
\* flag of the other kind that is set when half_transfer (or transfer_complete)
\* resolves is cleared with it and stays clear until the hardware raises it
\* again; a future that waits for that flag, made from the returned handle,
\* does not resolve Ok, and with no error does not resolve at all, before then.
C28_ResolutionClearsTheOtherFlag ==
  /\ [](\A c \in Channels : \A fl \in obs.swept[c] : ~isr[c][fl])
  /\ [][\A c \in Channels :
          LET f == dmaFut[c]
              r == dmaRes'[c]
              resolves == dmaRes[c] = None /\ r # None
          IN /\ resolves => \A fl \in {"htif", "tcif"} :
                              /\ ~isr'[c][fl]
                              /\ isr[c][fl] => fl \in obs'.swept[c]
             /\ (resolves /\ r.tag = "Ok") =>
                  CompletionFlag(f.kind) \notin obs.swept[c]
             /\ (Pending(c) /\ CompletionFlag(f.kind) \in obs.swept[c]
                   /\ ~isr[c].teif) =>
                  /\ Pending(c)' \/ Discarded(c)'
                  /\ dmaRes'[c] = None /\ dmaHandle'[c] = None
       ]_vars

\* Reached: half_transfer resolved while the transfer-complete flag was set;
\* a transfer_complete future made from the returned handle has been invoked
\* and has suspended, the flag still clear and no error flagged.
C28_Witness ==
  \E c \in Channels :
    /\ obs.by[c] = "half_transfer" /\ "tcif" \in obs.swept[c]
    /\ Suspended(c) /\ dmaFut[c].kind = "transfer_complete"
    /\ isr[c] = NoFlags

\* C29: in the state a combinator returns to, the register it drives (CR1 for
\* spe_after, CR2 for txdmaen_after) holds the value its caller supplied with
\* the bit (SPE, TXDMAEN) set, whatever the bit was before the call and whatever
\* the body left in the register; the return writes no other register.
C29_HoldsSuppliedValueWithBitSet ==
  /\ [](obs.last # None =>
          /\ obs.last.cr.reg = CombReg(obs.last.comb)
          /\ RegVal(spiRegs, obs.last.cr) = [obs.last.arg EXCEPT !.en = 1])
  /\ [][Len(spiFrames') = Len(spiFrames) - 1 =>
          LET top == spiFrames[Len(spiFrames)]
          IN \A p \in Spis, r \in {"cr1", "cr2"} :
               (p # top.cr.periph \/ r # CombReg(top.comb)) =>
                 spiRegs'[p][r] = spiRegs[p][r]
       ]_vars

\* Reached: spe_after was called with a value with SPE clear and the other bits
\* set; its body left CR1 with SPE clear and the other bits clear, which is not
\* what the call stored; spe_after has returned and CR1 holds the supplied
\* value with SPE set.
C29_Witness ==
  /\ obs.last # None
  /\ obs.last.comb = "spe_after"
  /\ obs.last.arg = [en |-> 0, rest |-> 1]
  /\ obs.last.left = [en |-> 0, rest |-> 0]
  /\ spiFrames = <<>>
  /\ RegVal(spiRegs, obs.last.cr) = [en |-> 1, rest |-> 1]

\* C30: while a future of a channel exists, pending or discarded, the caller
\* has no handle of the channel: no accessor and no decompose is possible and
\* no further future can be made. A handle comes into the caller's hands only
\* out of a resolution, Ok or Err, or from a bundle by compose; a discarded
\* future stays discarded and never gives a handle, a result or a bundle back.
C30_HandleOnlyThroughResolution ==
  /\ [](\A c \in Channels :
          dmaFut[c] # None =>
            /\ dmaHandle[c] = None /\ dmaRes[c] = None /\ dmaItems[c] = None
            /\ ~ENABLED dma_irq(c)
            /\ ~ENABLED dma_decompose(c)
            /\ ~ENABLED transfer_complete(c) /\ ~ENABLED half_transfer(c)
            /\ ~ENABLED dma_compose(c))
  /\ [][\A c \in Channels :
          /\ (dmaHandle[c] = None /\ dmaHandle'[c] # None) =>
               \/ /\ dmaRes[c] # None /\ dmaRes[c].tag \in {"Ok", "Err"}
                  /\ dmaHandle'[c] = dmaRes[c].val
                  /\ dmaFut[c] = None /\ dmaRes'[c] = None
               \/ /\ dmaItems[c] # None /\ dmaItems'[c] = None
                  /\ dmaFut[c] = None /\ dmaRes[c] = None
          /\ (dmaRes[c] = None /\ dmaRes'[c] # None) =>
               /\ Pending(c) /\ dmaFut'[c] = None
               /\ dmaRes'[c].val = dmaFut[c].self
          /\ Discarded(c) => dmaFut'[c] = dmaFut[c]
       ]_vars

\* Reached: a half_transfer future was discarded while suspended; every flag of
\* its channel has been raised since and nothing holds a handle of the channel.
C30_Witness ==
  \E c \in Channels :
    /\ Discarded(c) /\ dmaFut[c].kind = "half_transfer"
    /\ dmaHandle[c] = None /\ dmaRes[c] = None /\ dmaItems[c] = None
    /\ dmaGiven[c] # None
    /\ isr[c] = [teif |-> TRUE, htif |-> TRUE, tcif |-> TRUE]
    /\ \E p \in Spis : spiHandle[p] # None

\* C31: the futures of two channels are independent, on a shared vector as on
\* separate ones: the step that resolves the future of one channel found that
\* channel's own error flag (Err) or own tested flag (Ok) set, and leaves the
\* flags, the future and the result of the other channel as they were; a flag
\* of a channel is cleared only by the step that resolves that channel's own
\* future.
C31_ChannelsIndependent ==
  [][\A c \in Channels :
       LET f == dmaFut[c]
           resolves == dmaRes[c] = None /\ dmaRes'[c] # None
       IN /\ resolves =>
               /\ dmaRes'[c].tag = "Err" => isr[c].teif
               /\ dmaRes'[c].tag = "Ok" => isr[c][CompletionFlag(f.kind)]
               /\ \A d \in Channels \ {c} :
                    /\ isr'[d] = isr[d]
                    /\ dmaFut'[d] = dmaFut[d]
                    /\ dmaRes'[d] = dmaRes[d]
          /\ (\E fl \in {"teif", "htif", "tcif"} : isr[c][fl] /\ ~isr'[c][fl]) =>
               resolves
    ]_vars

\* Reached: on the variant where channels 4 and 5 share a vector, the future of
\* one channel has resolved Ok while the closure of the other, resumed, is between
\* its two tests with the flag it does not test still set.
C31_Witness ==
  /\ variant = "stm32f103"
  /\ IrqTy(variant, "Dma2Ch4") = IrqTy(variant, "Dma2Ch5")
  /\ \E c \in Channels : \E d \in Channels \ {c} :
       /\ dmaRes[c] # None /\ dmaRes[c].tag = "Ok" /\ isr[c] = NoFlags
       /\ dmaFut[d] # None /\ dmaFut[d].st = "compl"
       /\ dmaFut[d].kind = "transfer_complete"
       /\ isr[d] = [NoFlags EXCEPT !.htif = TRUE]

\* C32: the items next() has returned are the items the stream has produced, in
\* the order of production, each once; a step in which next() returns an item
\* leaves the adapter not exhausted, and the adapter becomes exhausted only in
\* the step in which the stream reports its end, which returns None.
C32_ReturnsWhatTheStreamProduced ==
  /\ [](/\ out = [i \in 1..stream.produced |-> i]
        /\ exhausted <=> stream.ended)
  /\ [][/\ out' # out =>
             /\ out' = Append(out, stream'.produced)
             /\ stream'.produced = stream.produced + 1
             /\ ret' = RetSome(stream'.produced)
             /\ ~exhausted /\ ~exhausted'
        /\ stream'.produced # stream.produced => out' # out
        /\ (exhausted' /\ ~exhausted) =>
             /\ stream'.ended /\ ~stream.ended
             /\ ret' = RetNone /\ out' = out
       ]_vars

\* Reached: next() has returned MaxItems items one after another, then None at
\* the stream's end, and None again on one later call.
C32_Witness ==
  /\ Len(out) = MaxItems
  /\ out = [i \in 1..MaxItems |-> i]
  /\ exhausted /\ stream.ended /\ ret = RetNone
  /\ streamLog.lateCalls = 1
  /\ nextPc = "idle"

\* C33: self_reset executes the barrier, then masks faults, then stores once to
\* SCB_AIRCR a value that carries the key 0x05FA together with the
\* system-reset request, then stays in its loop: no store asks for the reset
\* without the key, nothing is stored before the barrier and the masking, and
\* once called self_reset is never left.
C33_BarrierMaskKeyedRequestLoop ==
  /\ [](/\ resetPc \in {"running"} \cup {ResetSteps[i] : i \in DOMAIN ResetSteps}
        /\ barrier <=> resetPc \in {"cpsid", "store", "loop"}
        /\ FAULTMASK = 1 <=> resetPc \in {"store", "loop"}
        /\ Len(AIRCR) = (IF resetPc = "loop" THEN 1 ELSE 0)
        /\ \A i \in DOMAIN AIRCR :
             /\ AIRCR[i].sysresetreq = 1 => AIRCR[i].vectkey = VECTKEY
             /\ AIRCR[i] = [vectkey |-> VECTKEY, sysresetreq |-> 1])
  /\ [][/\ resetPc # "running" => resetPc' # "running"
        /\ resetPc = "loop" => resetPc' = "loop" /\ AIRCR' = AIRCR
        /\ AIRCR' # AIRCR => barrier /\ FAULTMASK = 1 /\ resetPc' = "loop"
       ]_vars

\* Reached: self_reset was called with interrupts masked by the program; it is
\* in its loop, faults masked, the one keyed request stored.
C33_Witness ==
  /\ resetPc = "loop"
  /\ barrier /\ FAULTMASK = 1
  /\ AIRCR = <<[vectkey |-> VECTKEY, sysresetreq |-> 1]>>
  /\ PRIMASK % 2 = 1

\* C34: spin returns after max(1, ceil(cycles / 3)) iterations: with cycles
\* below 2^16 it is still looping only before that many iterations, where a
\* further iteration is always possible, and it has returned only after exactly
\* that many; with any cycles, while it loops its register is the argument less
\* 3 per iteration with no borrow out of the 32 bits, and the iteration that
\* leaves the loop is the first whose subtraction gives zero or borrows.
C34_SpinIterations ==
  /\ [](spin.arg # None =>
          LET small == spin.arg.hi = 0
              expected == Max(1, (spin.arg.lo + 2) \div 3)
              k == 3 * spin.iters
              less == IF spin.arg.lo >= k THEN Word(spin.arg.hi, spin.arg.lo - k)
                      ELSE Word(spin.arg.hi - 1, spin.arg.lo + Half - k)
          IN /\ spin.pc = "idle" => small /\ spin.iters = expected
             /\ (spin.pc = "loop" /\ small) =>
                  spin.iters < expected /\ ENABLED spin_iter
             /\ spin.pc = "loop" =>
                  /\ spin.arg.lo >= k \/ spin.arg.hi >= 1
                  /\ spin.reg = less
                  /\ spin.iters > 0 => spin.reg # Word(0, 0))
  /\ [][(spin.pc = "loop" /\ spin'.pc = "idle") =>
          /\ spin.reg.hi = 0 /\ spin.reg.lo <= 3
          /\ spin'.iters = spin.iters + 1
       ]_vars

\* Reached: spin(7) has returned after 3 iterations, the last of which
\* borrowed: its register holds 2^32 - 2.
C34_Witness ==
  /\ spin.pc = "idle"
  /\ spin.arg = Word(0, 7)
  /\ spin.iters = 3
  /\ spin.reg = Word(Half - 1, Half - 2)

====
